---- MODULE Spec2Model ----
(***************************************************************************)
(* Calendar sync reconciliation of tempo-backend: CalendarService and the  *)
(* CalendarEvent / EventContact models over the InnoDB tables              *)
(* calendar_events and event_contacts.                                     *)
(***************************************************************************)
EXTENDS Integers, Sequences, FiniteSets, TLC

\* ------------------------------------------------------------------ bounds
MaxSnap == 2          \* longest snapshot a sync request carries
MaxInserts == 2       \* rows inserted into calendar_events in one behaviour
MaxContacts == 2      \* longest attachedContacts list of a create request
MaxContactRows == 2   \* rows inserted into event_contacts in one behaviour
MaxUserRows == 2      \* rows inserted into users in one behaviour
MaxCalendars == 2     \* longest calendarIds list of a preferences request

\* ------------------------------------------------------- values and inputs
Null == "NULL"
Undefined == "undefined"

IsoDate(sec, msec) == [kind |-> "iso", s |-> sec, ms |-> msec]
UndefinedDate == [kind |-> "undefined", s |-> 0, ms |-> 0]
GarbageDate == [kind |-> "garbage", s |-> 0, ms |-> 0]

\* JavaScript truthiness of the values a request field can hold.
Truthy(v) == v # "" /\ v # Undefined
TruthyDate(d) == d.kind # "undefined"

\* new Date(x).toISOString().slice(0, 19).replace('T', ' '): the milliseconds
\* are cut off; an Invalid Date makes toISOString throw a RangeError.
DateThrows(d) == d.kind # "iso"
FormatDateTime(d) == d.s

\* `x || null`
OrNull(v) == IF Truthy(v) THEN v ELSE Null

\* mysql2 refuses a bind parameter that is undefined.
BindThrows(v) == v = Undefined

\* is_all_day BOOLEAN column: true -> 1, anything falsy -> 0
BoolColumn(b) == IF b = "true" THEN 1 ELSE 0

Event(i, t, sd, ed, ad, n, l, ci, cn, fa) ==
  [id |-> i, title |-> t, startDate |-> sd, endDate |-> ed, isAllDay |-> ad,
   notes |-> n, location |-> l, calendarId |-> ci, calendarName |-> cn,
   fetchedAt |-> fa]

EvA1 == Event("A", "t1", IsoDate(10, 0), IsoDate(20, 0), "false", "n1", "l1",
              "cal1", "Work", IsoDate(30, 0))
EvA2 == Event("A", "t2", IsoDate(11, 500), IsoDate(21, 0), "true", "", "",
              "cal2", "Home", IsoDate(31, 749))
EvB1 == Event("B", "t1", IsoDate(12, 0), IsoDate(22, 0), "false", "n1", "",
              "cal1", "Work", IsoDate(30, 0))
EvC1 == Event("C", "t1", IsoDate(13, 0), IsoDate(23, 0), "false", "", "l1",
              "cal2", "Home", IsoDate(30, 0))
EvD1 == Event("D", "t1", IsoDate(14, 0), IsoDate(24, 0), "false", "", "",
              "cal1", "Work", IsoDate(32, 0))
\* fails the service's validation
EvNoTitle == Event("B", "", IsoDate(13, 0), IsoDate(23, 0), "false", "", "",
                   "cal1", "Work", IsoDate(30, 0))
\* passes the service's validation, and its fetchedAt is no date: the upsert
\* loop throws on it
EvBadFetched == Event("B", "t1", IsoDate(12, 0), IsoDate(22, 0), "false", "n1", "",
                      "cal1", "Work", GarbageDate)
\* events that carry the required fields and omit optional ones
EvNoNotes == Event("B", "t1", IsoDate(12, 0), IsoDate(22, 0), "false", Undefined,
                   Undefined, "cal1", "Work", IsoDate(30, 0))
EvNoFetched == Event("B", "t1", IsoDate(12, 0), IsoDate(22, 0), "false", "n1", "",
                     "cal1", "Work", UndefinedDate)
EvNoAllDay == Event("B", "t1", IsoDate(12, 0), IsoDate(22, 0), Undefined, "n1", "",
                    "cal1", "Work", IsoDate(30, 0))
EvNoCalendar == Event("B", "t1", IsoDate(12, 0), IsoDate(22, 0), "false", "n1", "",
                      Undefined, Undefined, IsoDate(30, 0))

SeqsUpTo(S, n) == UNION {[1..k -> S] : k \in 0..n}

\* what a request can carry as `events`: nothing, a non-array, or a list
NoEvents == [kind |-> "missing", list |-> <<>>]
NotArray == [kind |-> "notArray", list |-> <<>>]
EventsInputs(catalog) ==
  {NoEvents, NotArray}
    \cup {[kind |-> "array", list |-> s] : s \in SeqsUpTo(catalog, MaxSnap)}
IsEventsArray(ev) == ev.kind = "array"

\* the profile firebaseService.getUser returns for a verified token
Profile(u, e, n, ph, v) ==
  [uid |-> u, email |-> e, displayName |-> n, photoURL |-> ph, emailVerified |-> v]
NoProfile == Profile("", "", "", "", "")
ProfileInputs ==
  {Profile("u1", "one@new", "Uno", "p1", "true"),
   Profile("u9", "nine@a", "Nine", "", "true"),
   Profile("u9", "nine@b", Undefined, Undefined, Undefined),
   Profile("u8", "eight@a", "Eight", "p8", "false")}
Procs == {"p1", "p2"}

\* a users row
UserRow(i, u, e, n, ph, v) ==
  [id |-> i, firebase_uid |-> u, email |-> e, display_name |-> n, photo_url |-> ph,
   email_verified |-> v]

\* the options of GET /events: req.query.startDate, endDate and calendarId
Options(sd, ed, ci) == [startDate |-> sd, endDate |-> ed, calendarId |-> ci]
NoOptions == Options(UndefinedDate, UndefinedDate, "")
OptionsInputs ==
  {Options(sd, ed, ci) :
     sd \in {UndefinedDate, IsoDate(12, 0), IsoDate(12, 500), GarbageDate},
     ed \in {UndefinedDate, IsoDate(22, 0), IsoDate(21, 999)},
     ci \in {"", "cal1", "cal9"}}
\* the stats object of getCalendarStats before the first event is counted
NoStats == [totalEvents |-> 0, calendars |-> <<>>, upcomingEvents |-> 0,
            pastEvents |-> 0]
\* what new Date() of getCalendarStats can read off the clock
NowInputs == {IsoDate(11, 0), IsoDate(12, 0), IsoDate(12, 1), IsoDate(50, 0)}
EvE1 == Event("E", "t1", IsoDate(12, 0), IsoDate(21, 0), "false", "", "",
              "cal2", "Home", IsoDate(32, 0))

\* what a request can carry as the user's Firebase UID
UserIdInputs == {"", "u1", "u9"}
\* the Firebase UID of the verified token, on the routes that take it from there
TokenUids == {"u1", "u9"}

\* the pooled connections that run syncEvents
Conns == {"c1", "c2"}

SnapIds(snap) == {snap[i].id : i \in 1..Len(snap)}

\* ------------------------------------------------------------------- state
VARIABLES
  users,        \* table users: rows [id, firebase_uid]
  events,       \* table calendar_events, committed rows
  contacts,     \* table event_contacts, committed rows
  nextEventPk,  \* AUTO_INCREMENT of calendar_events.id
  nextContactPk,\* AUTO_INCREMENT of event_contacts.id
  inserted,     \* how many rows each table has been given so far
  pc,           \* per sync call: where syncEvents stands
  call,         \* per sync call: its arguments and loop index
  tx,           \* per sync call: the uncommitted writes of its transaction
  cpc,          \* the create call: where createCalendarEvent stands
  ccall,        \* the create call: the event's row id, the contacts, the loop index
  ctx,          \* the create call: the uncommitted rows of createMultiple
  synced,       \* the owner's last committed sync, while nothing else wrote since
  dir,          \* the findOrCreate calls in progress and the users AUTO_INCREMENT
  ai,           \* the parseCalendarIntent call in progress and its timer
  http,         \* the request authenticateToken let through last, as routed
  pool,         \* per pooled connection in use: what its holder did with it
  prefs,        \* table user_calendar_preferences and the updateCalendarPreferences call
  last          \* what the most recent step did and answered

vars == <<users, events, contacts, nextEventPk, nextContactPk, inserted,
          pc, call, tx, cpc, ccall, ctx, synced, dir, ai,
          http, pool, prefs, last>>

\* peer: whether another sync of the same owner ran while this one was open
\* ("none", "open", or "committed" once that one has committed), and its snapshot
\* auth: req.user.firebase_uid of the request, "" when no request was routed
NoCall == [userId |-> 0, firebaseUid |-> "", events |-> <<>>, idx |-> 0,
           peer |-> "none", peerSnap |-> <<>>, auth |-> ""]
NoTx == [written |-> {}, deleted |-> {}, range |-> {}, base |-> {}]
NoCreate == [eventPk |-> 0, contacts |-> <<>>, idx |-> 0]
NoSync == [userId |-> 0, snap |-> <<>>, count |-> 0]
\* no request routed yet: the words of its Authorization header, whether
\* Firebase answers, the handler it was routed to, its :eventId and req.user
NoRequest == [method |-> "", path |-> <<>>, authorization |-> <<>>, firebaseUp |-> TRUE,
              guarded |-> FALSE, handler |-> "", eventId |-> "", user |-> ""]
\* who takes a connection from the pool for a transaction
Holders == Conns \cup {"createMultiple", "updateCalendarPreferences"}
\* a connection not taken; taken: whether its transaction is open, and the
\* commits, rollbacks and releases its holder has done
\* releasedOpen: the connection went back to the pool with its transaction open
NotHeld == [held |-> FALSE, open |-> FALSE, acquired |-> 0, begun |-> 0,
            commits |-> 0, rollbacks |-> 0, releases |-> 0, releasedOpen |-> FALSE]
\* pool.getConnection()
GetConnection == [NotHeld EXCEPT !.held = TRUE, !.acquired = 1]
\* connection.beginTransaction()
BeginTransaction(l) == [l EXCEPT !.open = TRUE, !.begun = @ + 1]
\* connection.commit(): ends the transaction that is open
CommitTransaction(l) ==
  IF l.open THEN [l EXCEPT !.open = FALSE, !.commits = @ + 1] ELSE l
\* connection.rollback(): ends the transaction that is open; with none open
\* the statement changes nothing
RollbackTransaction(l) ==
  IF l.open THEN [l EXCEPT !.open = FALSE, !.rollbacks = @ + 1] ELSE l
\* faulty variant: a finally block that keeps the connection
NoRelease(l) == l
\* connection.release()
Release(l) ==
  [l EXCEPT !.held = FALSE, !.releases = @ + 1, !.releasedOpen = @ \/ l.open]
\* the connection once its holder's call has ended: the counts of the call go
\* with the call's record
AfterCall(l) == [NotHeld EXCEPT !.held = l.held, !.open = l.open]
\* the steps before the first statement that can reject
BeginSteps == {"getConnection", "beginTransaction"}
\* a call that ends at one of them: getConnection is awaited before the try
\* block; a rejected beginTransaction goes through catch and finally
FailedAt(step) ==
  IF step = "getConnection" THEN NotHeld
  ELSE Release(RollbackTransaction(GetConnection))
\* no updateCalendarPreferences call: the stored rows <<user_id, calendar_id>>,
\* the call's position and arguments, the user's rows as its transaction
\* sees them
NoPrefs == [stored |-> {}, pc |-> "idle", userId |-> 0, ids |-> <<>>, view |-> {}]
\* a findOrCreate call: its position, its profile, and the rows its first
\* lookup found
NoProc == [pc |-> "idle", profile |-> NoProfile, before |-> {}]

\* a step's record: what was done (kind), for which user, with which snapshot,
\* the count answered, the owner's rows before it, the count the same snapshot
\* was answered with the time before (-1: none), the contacts cascaded away
Blank == [kind |-> "", userId |-> 0, snap |-> <<>>, count |-> 0, rows |-> {},
          prev |-> 0 - 1, cascaded |-> 0, peer |-> "none", peerSnap |-> <<>>,
          op |-> "", uid |-> "", req |-> "", lookups |-> 0,
          opts |-> NoOptions, full |-> <<>>, list |-> <<>>,
          now |-> UndefinedDate, stats |-> NoStats,
          status |-> 0, message |-> "", keys |-> {}, failure |-> "",
          ledger |-> NotHeld]
Step(k, u, s, n, r) ==
  [Blank EXCEPT !.kind = k, !.userId = u, !.snap = s, !.count = n, !.rows = r]
\* a step's record with the request it answers: the operation, the Firebase
\* UID the request carried and the kind of its events field
Tag(st, o, uid, r) == [st EXCEPT !.op = o, !.uid = uid, !.req = r]
\* a sync request's record with the queries on the users table that
\* syncCalendarEvents issued before it answered
Looked(st, n) == [st EXCEPT !.lookups = n]
\* a call's last record with what it did with its connection
Ledger(st, l) == [st EXCEPT !.ledger = l]
Open(c) == pc[c] # "idle"

\* ------------------------------------------------------------ storage layer
RowsOf(tbl, userId) == {r \in tbl : r.user_id = userId}
IdsOf(tbl, userId) == {r.event_id : r \in RowsOf(tbl, userId)}
Pks(rows) == {r.id : r \in rows}
WithKey(tbl, eventId, userId) ==
  {r \in tbl : r.event_id = eventId /\ r.user_id = userId}

\* faulty variant: a lookup whose WHERE clause matches every user
FindUserLoose(uid) == {u \in users : uid # ""}

\* User.findByFirebaseUid: SELECT * FROM users WHERE firebase_uid = ?
FindUser(uid) == {u \in users : u.firebase_uid = uid}

\* The table as the statements of transaction c see it: the committed rows with
\* c's own uncommitted writes applied.
View(c) ==
  {r \in events : r.id \notin tx[c].deleted /\ r.id \notin Pks(tx[c].written)}
    \cup tx[c].written

\* Row and gap locks of InnoDB: the rows a transaction wrote or deleted stay
\* locked until it ends, and so does the owner's index range once the prune
\* DELETE has scanned it.
LockedKeys(d) ==
  {<<r.event_id, r.user_id>> : r \in tx[d].written}
    \cup {<<r.event_id, r.user_id>> : r \in {x \in events : x.id \in tx[d].deleted}}
LockedUsers(d) == {k[2] : k \in LockedKeys(d)} \cup tx[d].range

\* a write of key (eventId, userId) by `who` has to wait for another transaction
KeyBlocked(who, eventId, userId) ==
  \E d \in Conns \ {who} :
    Open(d) /\ (<<eventId, userId>> \in LockedKeys(d) \/ userId \in tx[d].range)

\* faulty variant: a prune that scans without waiting for the locks of others
ScanNeverBlocked(who, userId) == FALSE

\* a scan of all of userId's rows by `who` has to wait for another transaction
RangeBlocked(who, userId) ==
  \E d \in Conns \ {who} : Open(d) /\ userId \in LockedUsers(d)

\* the foreign key check of an uncommitted event_contacts row holds a shared
\* lock on its calendar_events row: that row cannot be changed or deleted
ParentShared(pks) == \E k \in ctx : k.event_id \in pks

\* the foreign key check of a new event_contacts row waits while a transaction
\* holds its calendar_events row
ParentBlocked(pk) ==
  \E d \in Conns : Open(d) /\ pk \in (tx[d].deleted \cup Pks(tx[d].written))

\* faulty variant: the foreign key without ON DELETE CASCADE enforcement
NoCascade(tbl, pks) == tbl

\* ON DELETE CASCADE of event_contacts.event_id
Cascade(tbl, pks) == {k \in tbl : k.event_id \notin pks}

\* `base` of every open transaction: its owner's committed rows, which only
\* the commits of others change while it runs
Rebase(txs, pcs, committed) ==
  [c \in Conns |->
     IF pcs[c] # "idle"
       THEN [txs[c] EXCEPT !.base = RowsOf(committed, call[c].userId)]
       ELSE txs[c]]

\* ------------------------------------------- CalendarService.syncCalendarEvents
ValidEvent(e) ==
  Truthy(e.id) /\ Truthy(e.title) /\ TruthyDate(e.startDate) /\ TruthyDate(e.endDate)

\* faulty variant: a validation that looks at the first event only
FirstInvalidHead(snap) ==
  IF snap = <<>> \/ ValidEvent(snap[1]) THEN 0 ELSE 1

\* the validation loop: the position of the first event it throws on, or 0
FirstInvalid(snap) ==
  IF \A i \in 1..Len(snap) : ValidEvent(snap[i]) THEN 0
  ELSE CHOOSE i \in 1..Len(snap) :
         ~ValidEvent(snap[i]) /\ \A j \in 1..(i - 1) : ValidEvent(snap[j])

\* the values bound to the INSERT of one snapshot event
EventRow(e, pk, userId, firebaseUid) ==
  [id |-> pk, event_id |-> e.id, user_id |-> userId, title |-> e.title,
   start_date |-> FormatDateTime(e.startDate),
   end_date |-> FormatDateTime(e.endDate),
   is_all_day |-> BoolColumn(e.isAllDay),
   notes |-> OrNull(e.notes), location |-> OrNull(e.location),
   calendar_id |-> e.calendarId, calendar_name |-> e.calendarName,
   firebase_uid |-> firebaseUid,
   fetched_at |-> FormatDateTime(e.fetchedAt)]

UpsertThrows(e) ==
  \/ DateThrows(e.startDate) \/ DateThrows(e.endDate) \/ DateThrows(e.fetchedAt)
  \/ BindThrows(e.id) \/ BindThrows(e.title) \/ BindThrows(e.isAllDay)
  \/ BindThrows(e.calendarId) \/ BindThrows(e.calendarName)

\* controller and service, up to syncEvents' getConnection and beginTransaction
SyncCall(c, ev, uid) ==
  /\ pc[c] = "idle"
  /\ UNCHANGED <<users, dir, ai, http, prefs, events, contacts, nextEventPk, nextContactPk, inserted,
                 cpc, ccall, ctx, synced>>
  /\ IF ev = NoEvents \/ ~Truthy(uid)
       THEN /\ last' = Tag(Step("badRequest", 0, <<>>, 0, {}), "sync", uid, ev.kind)
            /\ UNCHANGED <<pc, call, tx, pool>>
     ELSE IF ~IsEventsArray(ev)
       THEN /\ last' = Tag(Step("eventsRequired", 0, <<>>, 0, {}), "sync", uid, ev.kind)
            /\ UNCHANGED <<pc, call, tx, pool>>
     ELSE IF FindUser(uid) = {}
       THEN /\ last' = Looked(Tag(Step("userNotFound", 0, <<>>, 0, {}), "sync", uid, ev.kind), 1)
            /\ UNCHANGED <<pc, call, tx, pool>>
     ELSE IF FirstInvalid(ev.list) # 0
       THEN /\ last' = Looked(Tag(Step("validationError", (CHOOSE u \in FindUser(uid) : TRUE).id,
                              <<>>, FirstInvalid(ev.list), {}), "sync", uid, ev.kind), 1)
            /\ UNCHANGED <<pc, call, tx, pool>>
     ELSE LET user == CHOOSE u \in FindUser(uid) : TRUE IN
            /\ pc' = [pc EXCEPT ![c] = IF Len(ev.list) = 0 THEN "prune" ELSE "upsert"]
            /\ call' = [d \in Conns |->
                  IF d = c
                    THEN [userId |-> user.id, firebaseUid |-> uid, events |-> ev.list,
                          idx |-> 1, auth |-> http.user,
                          peer |-> IF \E o \in Conns \ {c} :
                                        Open(o) /\ call[o].userId = user.id
                                     THEN "open" ELSE "none",
                          peerSnap |-> IF \E o \in Conns \ {c} :
                                            Open(o) /\ call[o].userId = user.id
                                         THEN call[CHOOSE o \in Conns \ {c} :
                                                Open(o) /\ call[o].userId = user.id].events
                                         ELSE <<>>]
                  ELSE IF Open(d) /\ call[d].userId = user.id /\ call[d].peer = "none"
                    THEN [call[d] EXCEPT !.peer = "open", !.peerSnap = ev.list]
                  ELSE call[d]]
            /\ tx' = [tx EXCEPT ![c] = [NoTx EXCEPT !.base = RowsOf(events, user.id)]]
            /\ pool' = [pool EXCEPT ![c] = BeginTransaction(GetConnection)]
            /\ last' = Looked(Tag(Step("syncBegin", user.id, <<>>, 0, {}), "sync", uid, ev.kind), 1)

\* faulty variant: a plain INSERT into a table without the unique key
UpsertAlwaysInserts(c, e) ==
  LET row == EventRow(e, nextEventPk, call[c].userId, call[c].firebaseUid)
  IN /\ ~KeyBlocked(c, e.id, call[c].userId)
     /\ inserted.events < MaxInserts
     /\ nextEventPk' = nextEventPk + 1
     /\ inserted' = [inserted EXCEPT !.events = @ + 1]
     /\ tx' = [tx EXCEPT ![c].written = @ \cup {row}]
     /\ UNCHANGED <<events, contacts>>

\* faulty variant: INSERT IGNORE, which leaves a row that exists as it is
UpsertKeepsFirst(c, e) ==
  LET userId == call[c].userId
      hit == WithKey(View(c), e.id, userId)
      row == EventRow(e, nextEventPk, userId, call[c].firebaseUid)
  IN /\ ~KeyBlocked(c, e.id, userId)
     /\ ~ParentShared(Pks(hit))
     /\ hit = {} => inserted.events < MaxInserts
     /\ nextEventPk' = IF hit = {} THEN nextEventPk + 1 ELSE nextEventPk
     /\ inserted' = IF hit = {} THEN [inserted EXCEPT !.events = @ + 1] ELSE inserted
     /\ tx' = IF hit = {} THEN [tx EXCEPT ![c].written = @ \cup {row}]
                          ELSE [tx EXCEPT ![c].written = @ \cup hit]
     /\ UNCHANGED <<events, contacts>>

\* faulty variant: an ON DUPLICATE KEY UPDATE clause that names the title only
UpsertTitleOnly(c, e) ==
  LET userId == call[c].userId
      hit == WithKey(View(c), e.id, userId)
      row == IF hit = {}
               THEN EventRow(e, nextEventPk, userId, call[c].firebaseUid)
               ELSE [(CHOOSE r \in hit : TRUE) EXCEPT !.title = e.title]
  IN /\ ~KeyBlocked(c, e.id, userId)
     /\ ~ParentShared(Pks(hit))
     /\ hit = {} => inserted.events < MaxInserts
     /\ nextEventPk' = IF hit = {} THEN nextEventPk + 1 ELSE nextEventPk
     /\ inserted' = IF hit = {} THEN [inserted EXCEPT !.events = @ + 1] ELSE inserted
     /\ tx' = [tx EXCEPT ![c].written = {r \in @ : r.id # row.id} \cup {row}]
     /\ UNCHANGED <<events, contacts>>

\* faulty variant: the upsert sent through the pool, which commits it at once
UpsertOnPool(c, e) ==
  LET userId == call[c].userId
      hit == WithKey(events, e.id, userId)
      pk == IF hit = {} THEN nextEventPk ELSE (CHOOSE r \in hit : TRUE).id
      row == EventRow(e, pk, userId, call[c].firebaseUid)
  IN /\ hit = {} => inserted.events < MaxInserts
     /\ nextEventPk' = IF hit = {} THEN nextEventPk + 1 ELSE nextEventPk
     /\ inserted' = IF hit = {} THEN [inserted EXCEPT !.events = @ + 1] ELSE inserted
     /\ events' = (events \ hit) \cup {row}
     /\ UNCHANGED <<tx, contacts>>

\* INSERT ... ON DUPLICATE KEY UPDATE of one event, on the transaction's connection
Upsert(c, e) ==
  LET userId == call[c].userId
      hit == WithKey(View(c), e.id, userId)
      pk == IF hit = {} THEN nextEventPk ELSE (CHOOSE r \in hit : TRUE).id
      row == EventRow(e, pk, userId, call[c].firebaseUid)
  IN /\ ~KeyBlocked(c, e.id, userId)
     /\ ~ParentShared(Pks(hit))
     /\ hit = {} => inserted.events < MaxInserts
     /\ nextEventPk' = IF hit = {} THEN nextEventPk + 1 ELSE nextEventPk
     /\ inserted' = IF hit = {} THEN [inserted EXCEPT !.events = @ + 1] ELSE inserted
     /\ tx' = [tx EXCEPT ![c].written = {r \in @ : r.id # pk} \cup {row}]
     /\ UNCHANGED <<events, contacts>>

\* faulty variant: a prune that deletes nothing
PruneNothing(c, userId, syncEventIds) ==
  /\ ~RangeBlocked(c, userId)
  /\ tx' = [tx EXCEPT ![c].range = @ \cup {userId}]
  /\ UNCHANGED <<events, contacts>>

\* faulty variant: a prune whose WHERE clause leaves out user_id
PruneAnyOwner(c, userId, syncEventIds) ==
  LET gone == IF syncEventIds # {}
                THEN {r \in View(c) : r.event_id \notin syncEventIds}
                ELSE View(c)
  IN /\ ~RangeBlocked(c, userId)
     /\ ~ParentShared(Pks(View(c)))
     /\ tx' = [tx EXCEPT ![c].written = @ \ gone,
                         ![c].deleted = @ \cup (Pks(gone) \cap Pks(events)),
                         ![c].range = @ \cup {userId}]
     /\ UNCHANGED <<events, contacts>>

\* faulty variant: a prune without the branch for the empty snapshot
PruneSkipsEmpty(c, userId, syncEventIds) ==
  LET gone == IF syncEventIds # {}
                THEN {r \in RowsOf(View(c), userId) : r.event_id \notin syncEventIds}
                ELSE {}
  IN /\ ~RangeBlocked(c, userId)
     /\ ~ParentShared(Pks(RowsOf(View(c), userId)))
     /\ tx' = [tx EXCEPT ![c].written = @ \ gone,
                         ![c].deleted = @ \cup (Pks(gone) \cap Pks(events)),
                         ![c].range = @ \cup {userId}]
     /\ UNCHANGED <<events, contacts>>

\* DELETE FROM calendar_events WHERE user_id = ? [AND event_id NOT IN (...)],
\* on the transaction's connection
Prune(c, userId, syncEventIds) ==
  LET gone == IF syncEventIds # {}
                THEN {r \in RowsOf(View(c), userId) : r.event_id \notin syncEventIds}
                ELSE RowsOf(View(c), userId)
  IN /\ ~RangeBlocked(c, userId)
     /\ ~ParentShared(Pks(RowsOf(View(c), userId)))
     /\ tx' = [tx EXCEPT ![c].written = @ \ gone,
                         ![c].deleted = @ \cup (Pks(gone) \cap Pks(events)),
                         ![c].range = @ \cup {userId}]
     /\ UNCHANGED <<events, contacts>>

\* connection.commit(): the transaction's writes become the committed rows
Commit(c) ==
  /\ events' = View(c)
  /\ contacts' = Cascade(contacts, tx[c].deleted)
  /\ tx' = Rebase([tx EXCEPT ![c] = NoTx], [pc EXCEPT ![c] = "idle"], View(c))

\* faulty variant: a rollback that leaves the transaction's writes in place
RollbackKeepsWrites(c) ==
  /\ events' = View(c)
  /\ contacts' = Cascade(contacts, tx[c].deleted)
  /\ tx' = Rebase([tx EXCEPT ![c] = NoTx], [pc EXCEPT ![c] = "idle"], View(c))

\* connection.rollback(): the transaction's writes are dropped
Rollback(c) ==
  /\ tx' = [tx EXCEPT ![c] = NoTx]
  /\ UNCHANGED <<events, contacts>>

\* catch: rollback, throw; finally: release
SyncThrow(c) ==
  /\ Rollback(c)
  /\ pc' = [pc EXCEPT ![c] = "idle"]
  /\ call' = [call EXCEPT ![c] = NoCall]
  /\ pool' = [pool EXCEPT ![c] = AfterCall(Release(RollbackTransaction(@)))]
  /\ last' = Ledger(Step("syncError", call[c].userId, <<>>, call[c].idx - 1, {}),
                    Release(RollbackTransaction(pool[c])))
  /\ UNCHANGED <<users, dir, ai, http, prefs, nextEventPk, nextContactPk, inserted, cpc, ccall, ctx, synced>>

\* one turn of the upsert loop
SyncUpsert(c) ==
  /\ pc[c] = "upsert"
  /\ LET e == call[c].events[call[c].idx] IN
       IF UpsertThrows(e)
         THEN SyncThrow(c)
         ELSE /\ Upsert(c, e)
              /\ pc' = [pc EXCEPT ![c] =
                    IF call[c].idx = Len(call[c].events) THEN "prune" ELSE "upsert"]
              /\ call' = [call EXCEPT ![c].idx = @ + 1]
              /\ last' = Step("upsert", call[c].userId, <<>>, 0, {})
              /\ UNCHANGED <<users, dir, ai, http, pool, prefs, nextContactPk, cpc, ccall, ctx, synced>>

\* step 2 of syncEvents
SyncPrune(c) ==
  /\ pc[c] = "prune"
  /\ Prune(c, call[c].userId, SnapIds(call[c].events))
  /\ pc' = [pc EXCEPT ![c] = "commit"]
  /\ last' = Step("prune", call[c].userId, <<>>, 0, {})
  /\ UNCHANGED <<users, dir, ai, http, pool, prefs, nextEventPk, nextContactPk, inserted, call, cpc, ccall, ctx,
                 synced>>

\* commit, and the service's answer
SyncCommit(c) ==
  /\ pc[c] = "commit"
  /\ Commit(c)
  /\ pc' = [pc EXCEPT ![c] = "idle"]
  /\ call' = [d \in Conns |->
       IF d = c THEN NoCall
       ELSE IF Open(d) /\ call[d].userId = call[c].userId
         THEN [call[d] EXCEPT !.peer = "committed", !.peerSnap = call[c].events]
       ELSE call[d]]
  /\ synced' = [userId |-> call[c].userId, snap |-> call[c].events,
                count |-> Len(call[c].events)]
  /\ pool' = [pool EXCEPT ![c] = AfterCall(Release(CommitTransaction(@)))]
  /\ last' = [Step("syncOk", call[c].userId, call[c].events, Len(call[c].events),
                   tx[c].base)
                EXCEPT !.ledger = Release(CommitTransaction(pool[c])),
                       !.prev = IF synced.userId = call[c].userId
                                     /\ synced.snap = call[c].events
                                  THEN synced.count ELSE 0 - 1,
                       !.cascaded = Cardinality(contacts \ Cascade(contacts, tx[c].deleted)),
                       !.peer = call[c].peer,
                       !.peerSnap = call[c].peerSnap]
  /\ UNCHANGED <<users, dir, ai, http, prefs, nextEventPk, nextContactPk, inserted, cpc, ccall, ctx>>

\* any statement of the transaction can fail (lost connection, deadlock
\* victim, lock wait timeout)
SyncFail(c) ==
  /\ Open(c)
  /\ SyncThrow(c)

\* getConnection or beginTransaction rejects: syncEvents throws before its
\* first statement
SyncBeginFails(c, ev, uid, step) ==
  /\ pc[c] = "idle"
  /\ ev # NoEvents /\ Truthy(uid) /\ IsEventsArray(ev)
  /\ FindUser(uid) # {}
  /\ FirstInvalid(ev.list) = 0
  /\ last' = Ledger(Looked(Tag(Step("syncError", (CHOOSE u \in FindUser(uid) : TRUE).id,
                                    <<>>, 0, {}), "sync", uid, ev.kind), 1),
                    FailedAt(step))
  /\ pool' = [pool EXCEPT ![c] = AfterCall(FailedAt(step))]
  /\ UNCHANGED <<users, dir, ai, http, prefs, events, contacts, nextEventPk, nextContactPk,
                 inserted, pc, call, tx, cpc, ccall, ctx, synced>>

\* ------------------------------------------- CalendarService.getCalendarEvents
\* CalendarEvent.findByFirebaseUid: one SELECT on a pooled connection, which
\* reads the committed rows
ReadEvents(uid) ==
  {r \in events : \E u \in users : u.id = r.user_id /\ u.firebase_uid = uid}

Read(uid) ==
  /\ last' = Tag(Step("read", IF FindUser(uid) = {} THEN 0
                          ELSE (CHOOSE u \in FindUser(uid) : TRUE).id,
                  <<>>, 0, ReadEvents(uid)), "read", uid, "")
  /\ UNCHANGED <<users, dir, ai, http, pool, prefs, events, contacts, nextEventPk, nextContactPk, inserted,
                 pc, call, tx, cpc, ccall, ctx, synced>>

\* the offset of the server's time zone from UTC, in seconds: the process
\* runs in UTC
ServerUtcOffset == 0
\* new Date(x).getTime() of a request's ISO string, in milliseconds
Millis(d) == d.s * 1000 + d.ms
\* new Date(row.start_date): the DATETIME column as mysql2 hands it over, a
\* Date built from the stored wall-clock time in the server's time zone
ReadMillis(sec) == (sec - ServerUtcOffset) * 1000

StartsAfter(row, d) == d.kind = "iso" /\ ReadMillis(row.start_date) > Millis(d)
\* new Date(event.start_date) >= startDate; no comparison with an Invalid
\* Date holds
StartsOnOrAfter(row, d) == d.kind = "iso" /\ ReadMillis(row.start_date) >= Millis(d)
\* new Date(event.end_date) <= endDate
EndsOnOrBefore(row, d) == d.kind = "iso" /\ ReadMillis(row.end_date) <= Millis(d)

\* the rows of a SELECT ... ORDER BY start_date ASC: any order of the rows
\* that ascends in start_date
SortedLists(rows) ==
  {f \in [1..Cardinality(rows) -> rows] :
     /\ \A i, j \in 1..Cardinality(rows) : i # j => f[i] # f[j]
     /\ \A i, j \in 1..Cardinality(rows) : i < j => f[i].start_date <= f[j].start_date}

\* the three filters of getCalendarEvents, each applied when its option is truthy
Filtered(full, o) ==
  LET from(r) == ~TruthyDate(o.startDate) \/ StartsOnOrAfter(r, o.startDate)
      until(r) == ~TruthyDate(o.endDate) \/ EndsOnOrBefore(r, o.endDate)
      ofCalendar(r) == ~Truthy(o.calendarId) \/ r.calendar_id = o.calendarId
  IN SelectSeq(SelectSeq(SelectSeq(full, from), until), ofCalendar)

\* CalendarService.getCalendarEvents, called by the controller function op
GetCalendarEventsFor(op, uid, o) ==
  /\ \E full \in SortedLists(ReadEvents(uid)) :
       last' = [Tag(Step("events", 0, <<>>, Len(Filtered(full, o)), {}), op, uid, "")
                  EXCEPT !.opts = o, !.full = full, !.list = Filtered(full, o)]
  /\ UNCHANGED <<users, dir, ai, http, pool, prefs, events, contacts, nextEventPk, nextContactPk, inserted,
                 pc, call, tx, cpc, ccall, ctx, synced>>

\* the controller's getCalendarEvents: GET /events
GetCalendarEvents(uid, o) == GetCalendarEventsFor("events", uid, o)

IsUpcomingOrNow(row, now) == ReadMillis(row.start_date) >= Millis(now)
\* eventStart > now
IsUpcoming(row, now) == ReadMillis(row.start_date) > Millis(now)

\* one round of events.forEach: the calendar's counter is created at 0 when
\* missing and raised, and the event counts as upcoming or as past
CountEvent(stats, e, now) ==
  LET seen == DOMAIN stats.calendars
      counters == [n \in seen \cup {e.calendar_name} |->
                     IF n \in seen THEN stats.calendars[n] ELSE 0]
  IN [stats EXCEPT
        !.calendars = [counters EXCEPT ![e.calendar_name] = @ + 1],
        !.upcomingEvents = IF IsUpcoming(e, now) THEN @ + 1 ELSE @,
        !.pastEvents = IF IsUpcoming(e, now) THEN @ ELSE @ + 1]

RECURSIVE CountEvents(_, _, _)
CountEvents(stats, list, now) ==
  IF list = <<>> THEN stats
  ELSE CountEvents(CountEvent(stats, Head(list), now), Tail(list), now)

\* CalendarService.getCalendarStats
GetCalendarStats(uid, now) ==
  /\ \E list \in SortedLists(ReadEvents(uid)) :
       last' = [Tag(Step("stats", 0, <<>>, Len(list), {}), "stats", uid, "")
                  EXCEPT !.now = now,
                         !.stats = CountEvents([NoStats EXCEPT !.totalEvents = Len(list)],
                                               list, now)]
  /\ UNCHANGED <<users, dir, ai, http, pool, prefs, events, contacts, nextEventPk, nextContactPk, inserted,
                 pc, call, tx, cpc, ccall, ctx, synced>>

\* ----------------------------------------- CalendarService.deleteCalendarEvent
\* faulty variant: a DELETE whose WHERE clause names the event_id only
DeleteByEventIdAnyOwner(eventId, userId) ==
  LET hit == {r \in events : r.event_id = eventId} IN
    /\ \A r \in hit : ~KeyBlocked("pool", eventId, r.user_id)
    /\ ~ParentShared(Pks(hit))
    /\ events' = events \ hit
    /\ contacts' = Cascade(contacts, Pks(hit))
    /\ tx' = Rebase(tx, pc, events \ hit)

\* CalendarEvent.deleteByEventId: DELETE ... WHERE event_id = ? AND user_id = ?
DeleteByEventId(eventId, userId) ==
  LET hit == WithKey(events, eventId, userId) IN
    /\ ~KeyBlocked("pool", eventId, userId)
    /\ ~ParentShared(Pks(hit))
    /\ events' = events \ hit
    /\ contacts' = Cascade(contacts, Pks(hit))
    /\ tx' = Rebase(tx, pc, events \ hit)

DeleteCall(uid, eventId) ==
  /\ UNCHANGED <<users, dir, ai, http, pool, prefs, nextEventPk, nextContactPk, inserted, pc, call, cpc, ccall, ctx>>
  /\ IF FindUser(uid) = {}
       THEN /\ last' = Tag(Step("deleteUserNotFound", 0, <<>>, 0, {}),
                            "delete", uid, eventId)
            /\ UNCHANGED <<events, contacts, tx, synced>>
       ELSE LET user == CHOOSE u \in FindUser(uid) : TRUE
                hit == WithKey(events, eventId, user.id)
            IN /\ DeleteByEventId(eventId, user.id)
               /\ synced' = IF hit # {} /\ synced.userId = user.id THEN NoSync ELSE synced
               /\ last' = Tag(IF hit = {}
                                THEN Step("deleteNotFound", user.id, <<>>, 0, {})
                                ELSE [Step("deleteOk", user.id, <<>>, 1,
                                           RowsOf(events, user.id))
                                        EXCEPT !.cascaded =
                                          Cardinality(contacts \ Cascade(contacts, Pks(hit)))],
                              "delete", uid, eventId)

\* ----------------------------------------- CalendarService.createCalendarEvent
\* formatDateTime of CalendarEvent.create parses the already formatted
\* 'YYYY-MM-DD HH:MM:SS' string again, in the server's time zone
Reformat(sec) == sec - ServerUtcOffset
\* new Date(): the clock when the event carries no createdAt
Now == 40

CreateRow(e, pk, userId, firebaseUid) ==
  [id |-> pk, event_id |-> e.id, user_id |-> userId, title |-> e.title,
   start_date |-> Reformat(FormatDateTime(e.startDate)),
   end_date |-> Reformat(FormatDateTime(e.endDate)),
   is_all_day |-> BoolColumn(e.isAllDay),
   notes |-> OrNull(OrNull(e.notes)), location |-> OrNull(OrNull(e.location)),
   calendar_id |-> e.calendarId, calendar_name |-> e.calendarName,
   firebase_uid |-> firebaseUid,
   fetched_at |-> Reformat(Now)]

CreateThrows(e) ==
  \/ DateThrows(e.startDate) \/ DateThrows(e.endDate)
  \/ BindThrows(e.id) \/ BindThrows(e.calendarId) \/ BindThrows(e.calendarName)

\* faulty variant: calendar_events without its unique key
NoUniqueKey(eventId, userId) == FALSE

\* the unique key unique_event_user (event_id, user_id) of calendar_events
DuplicateKey(eventId, userId) == WithKey(events, eventId, userId) # {}

\* CalendarEvent.create: a plain INSERT on a pooled connection
InsertEvent(row) ==
  /\ ~KeyBlocked("pool", row.event_id, row.user_id)
  /\ inserted.events < MaxInserts
  /\ events' = events \cup {row}
  /\ nextEventPk' = nextEventPk + 1
  /\ inserted' = [inserted EXCEPT !.events = @ + 1]
  /\ tx' = Rebase(tx, pc, events \cup {row})

CreateCall(uid, e, cts) ==
  /\ cpc = "idle"
  /\ UNCHANGED <<users, dir, ai, http, prefs, contacts, nextContactPk, pc, call, ctx>>
  /\ IF ~Truthy(e.title) \/ ~TruthyDate(e.startDate) \/ ~TruthyDate(e.endDate)
       THEN /\ last' = Tag(Step("badRequest", 0, <<>>, 0, {}), "create", uid, "")
            /\ UNCHANGED <<events, nextEventPk, inserted, tx, cpc, ccall, synced, pool>>
     ELSE IF FindUser(uid) = {}
       THEN /\ last' = Tag(Step("createError", 0, <<>>, 0, {}), "create", uid, "")
            /\ UNCHANGED <<events, nextEventPk, inserted, tx, cpc, ccall, synced, pool>>
     ELSE LET user == CHOOSE u \in FindUser(uid) : TRUE IN
       IF CreateThrows(e) \/ DuplicateKey(e.id, user.id)
         THEN /\ ~KeyBlocked("pool", e.id, user.id)
              /\ last' = Tag(Step("createError", user.id, <<e>>, 0, {}), "create", uid, "")
              /\ UNCHANGED <<events, nextEventPk, inserted, tx, cpc, ccall, synced, pool>>
         ELSE /\ InsertEvent(CreateRow(e, nextEventPk, user.id, uid))
              /\ synced' = IF synced.userId = user.id THEN NoSync ELSE synced
              /\ IF Len(cts) = 0
                   THEN /\ last' = Tag(Step("createOk", user.id, <<>>, 0, {}), "create", uid, "")
                        /\ UNCHANGED <<cpc, ccall, pool>>
                   ELSE /\ last' = Tag(Step("createInserted", user.id, <<>>, 0, {}), "create", uid, "")
                        /\ cpc' = "contacts"
                        /\ ccall' = [eventPk |-> nextEventPk, contacts |-> cts, idx |-> 1]
                        /\ pool' = [pool EXCEPT !["createMultiple"] =
                                      BeginTransaction(GetConnection)]

\* ------------------------------------------------- EventContact.createMultiple
\* the attachedContacts a create request can carry
Contact(i, n) == [id |-> i, name |-> n]
ContactInputs == {Contact("k1", "Ann"), Contact("k2", Undefined)}

ContactRow(k, pk, eventPk) ==
  [id |-> pk, event_id |-> eventPk, contact_id |-> k.id, contact_name |-> k.name]

\* FOREIGN KEY (event_id) REFERENCES calendar_events(id)
ParentExists(eventPk) == eventPk \in Pks(events)

\* catch: rollback, throw; finally: release; createCalendarEvent rethrows
CreateThrow ==
  /\ ctx' = {}
  /\ cpc' = "idle"
  /\ ccall' = NoCreate
  /\ pool' = [pool EXCEPT !["createMultiple"] = AfterCall(Release(RollbackTransaction(@)))]
  /\ last' = Ledger(Step("createError", 0, <<>>, ccall.idx - 1, {}),
                    Release(RollbackTransaction(pool["createMultiple"])))
  /\ UNCHANGED <<users, dir, ai, http, prefs, events, contacts, nextEventPk, nextContactPk, inserted,
                 pc, call, tx, synced>>

\* one turn of the INSERT loop
CreateContact ==
  /\ cpc = "contacts"
  /\ LET k == ccall.contacts[ccall.idx] IN
       IF BindThrows(k.id) \/ BindThrows(k.name) \/ ~ParentExists(ccall.eventPk)
         THEN /\ ~ParentBlocked(ccall.eventPk)
              /\ CreateThrow
         ELSE /\ ~ParentBlocked(ccall.eventPk)
              /\ inserted.contacts < MaxContactRows
              /\ ctx' = ctx \cup {ContactRow(k, nextContactPk, ccall.eventPk)}
              /\ nextContactPk' = nextContactPk + 1
              /\ inserted' = [inserted EXCEPT !.contacts = @ + 1]
              /\ cpc' = IF ccall.idx = Len(ccall.contacts) THEN "commit" ELSE "contacts"
              /\ ccall' = [ccall EXCEPT !.idx = @ + 1]
              /\ last' = Step("contact", 0, <<>>, 0, {})
              /\ UNCHANGED <<users, dir, ai, http, pool, prefs, events, contacts, nextEventPk, pc, call, tx, synced>>

\* connection.commit() of createMultiple, then the service's answer
CreateCommit ==
  /\ cpc = "commit"
  /\ contacts' = contacts \cup ctx
  /\ ctx' = {}
  /\ cpc' = "idle"
  /\ ccall' = NoCreate
  /\ pool' = [pool EXCEPT !["createMultiple"] = AfterCall(Release(CommitTransaction(@)))]
  /\ last' = Ledger(Step("createOk", 0, <<>>, Len(ccall.contacts), {}),
                    Release(CommitTransaction(pool["createMultiple"])))
  /\ UNCHANGED <<users, dir, ai, http, prefs, events, nextEventPk, nextContactPk, inserted, pc, call, tx,
                 synced>>

\* any statement of createMultiple can fail
CreateFail ==
  /\ cpc # "idle"
  /\ CreateThrow

\* getConnection or beginTransaction of createMultiple rejects, after
\* CalendarEvent.create has inserted the event
CreateBeginFails(uid, e, cts, step) ==
  /\ cpc = "idle"
  /\ Truthy(e.title) /\ TruthyDate(e.startDate) /\ TruthyDate(e.endDate)
  /\ FindUser(uid) # {}
  /\ Len(cts) > 0
  /\ LET user == CHOOSE u \in FindUser(uid) : TRUE IN
       /\ ~CreateThrows(e) /\ ~DuplicateKey(e.id, user.id)
       /\ InsertEvent(CreateRow(e, nextEventPk, user.id, uid))
       /\ synced' = IF synced.userId = user.id THEN NoSync ELSE synced
       /\ last' = Ledger(Tag(Step("createError", user.id, <<>>, 0, {}), "create", uid, ""),
                         FailedAt(step))
  /\ pool' = [pool EXCEPT !["createMultiple"] = AfterCall(FailedAt(step))]
  /\ UNCHANGED <<users, dir, ai, http, prefs, contacts, nextContactPk, pc, call, cpc, ccall, ctx>>

\* ------------------------------------------------------------ User.findOrCreate
\* faulty variant: a users table without the unique key
NoUserKey(uid) == FALSE

\* the unique key of users on firebase_uid
UserKeyTaken(uid) == \E u \in users : u.firebase_uid = uid

\* faulty variant: statements that leave out the photo_url column
ProfileColumnsNoPhoto(row, prof) ==
  [row EXCEPT !.email = prof.email,
              !.display_name = OrNull(prof.displayName),
              !.email_verified = BoolColumn(prof.emailVerified)]

\* the columns User.create and User.update bind from the profile
ProfileColumns(row, prof) ==
  [row EXCEPT !.email = prof.email,
              !.display_name = OrNull(prof.displayName),
              !.photo_url = OrNull(prof.photoURL),
              !.email_verified = BoolColumn(prof.emailVerified)]

\* let user = await this.findByFirebaseUid(userData.uid)
FocFind(p, prof) ==
  /\ dir.procs[p].pc = "idle"
  /\ dir' = [dir EXCEPT !.procs[p] =
               [pc |-> IF FindUser(prof.uid) # {} THEN "update" ELSE "create",
                profile |-> prof, before |-> FindUser(prof.uid)]]
  /\ last' = Tag(Step("userLookup", 0, <<>>, 0, {}), "findOrCreate", prof.uid, "")
  /\ UNCHANGED <<ai, http, pool, prefs, users, events, contacts, nextEventPk, nextContactPk, inserted,
                 pc, call, tx, cpc, ccall, ctx, synced>>

\* User.update: UPDATE users SET ... WHERE firebase_uid = ?
FocUpdate(p) ==
  LET prof == dir.procs[p].profile IN
    /\ dir.procs[p].pc = "update"
    /\ users' = {IF u.firebase_uid = prof.uid THEN ProfileColumns(u, prof) ELSE u :
                   u \in users}
    /\ dir' = [dir EXCEPT !.procs[p].pc = "reread"]
    /\ last' = Tag(Step("userWrite", 0, <<>>, 0, {}), "findOrCreate", prof.uid, "")
    /\ UNCHANGED <<ai, http, pool, prefs, events, contacts, nextEventPk, nextContactPk, inserted,
                   pc, call, tx, cpc, ccall, ctx, synced>>

\* User.create: INSERT INTO users; a duplicate-key error is rethrown by
\* create and by findOrCreate
FocCreate(p) ==
  LET prof == dir.procs[p].profile IN
    /\ dir.procs[p].pc = "create"
    /\ UNCHANGED <<ai, http, pool, prefs, events, contacts, nextEventPk, nextContactPk, inserted,
                   pc, call, tx, cpc, ccall, ctx, synced>>
    /\ IF UserKeyTaken(prof.uid)
         THEN /\ dir' = [dir EXCEPT !.procs[p] = NoProc]
              /\ last' = Tag(Step("userError", 0, <<>>, 0, {}), "findOrCreate", prof.uid, "")
              /\ UNCHANGED users
         ELSE /\ dir.inserted < MaxUserRows
              /\ users' = users \cup
                   {ProfileColumns(UserRow(dir.next, prof.uid, "", "", "", 0), prof)}
              /\ dir' = [dir EXCEPT !.next = @ + 1, !.inserted = @ + 1,
                                    !.procs[p].pc = "reread"]
              /\ last' = Tag(Step("userWrite", 0, <<>>, 0, {}), "findOrCreate", prof.uid, "")

\* the findByFirebaseUid that ends create and update, and the return
FocReturn(p) ==
  LET prof == dir.procs[p].profile IN
    /\ dir.procs[p].pc = "reread"
    /\ dir' = [dir EXCEPT !.procs[p] = NoProc]
    /\ last' = Tag(Step(IF dir.procs[p].before = {} THEN "userCreated" ELSE "userUpdated",
                        0, <<>>, 0, FindUser(prof.uid)),
                   "findOrCreate", prof.uid, "")
    /\ UNCHANGED <<ai, http, pool, prefs, users, events, contacts, nextEventPk, nextContactPk, inserted,
                   pc, call, tx, cpc, ccall, ctx, synced>>

\* ------------------------------------------------ User.updateCalendarPreferences
\* the calendarIds a preferences request can carry
CalendarIdLists == SeqsUpTo({"cal1", "cal2"}, MaxCalendars)

\* UNIQUE KEY unique_user_calendar (user_id, calendar_id): one INSERT of a
\* list that names a calendar twice is refused
DuplicateCalendar(ids) == Cardinality({ids[i] : i \in DOMAIN ids}) < Len(ids)

\* findByFirebaseUid, getConnection and beginTransaction
UpdateCalendarPreferences(uid, ids) ==
  /\ prefs.pc = "idle"
  /\ IF FindUser(uid) = {}
       THEN /\ last' = Looked(Tag(Step("prefsError", 0, <<>>, 0, {}), "prefs", uid, ""), 1)
            /\ UNCHANGED <<prefs, pool>>
       ELSE LET user == CHOOSE u \in FindUser(uid) : TRUE IN
            /\ prefs' = [prefs EXCEPT !.pc = "delete", !.userId = user.id, !.ids = ids,
                                      !.view = {r \in prefs.stored : r[1] = user.id}]
            /\ pool' = [pool EXCEPT !["updateCalendarPreferences"] =
                          BeginTransaction(GetConnection)]
            /\ last' = Looked(Tag(Step("prefsBegin", user.id, <<>>, 0, {}), "prefs", uid, ""), 1)
  /\ UNCHANGED <<users, dir, ai, http, events, contacts, nextEventPk, nextContactPk,
                 inserted, pc, call, tx, cpc, ccall, ctx, synced>>

\* getConnection or beginTransaction rejects
PrefsBeginFails(uid, ids, step) ==
  /\ prefs.pc = "idle"
  /\ FindUser(uid) # {}
  /\ last' = Ledger(Looked(Tag(Step("prefsError", (CHOOSE u \in FindUser(uid) : TRUE).id,
                                    <<>>, 0, {}), "prefs", uid, ""), 1),
                    FailedAt(step))
  /\ pool' = [pool EXCEPT !["updateCalendarPreferences"] = AfterCall(FailedAt(step))]
  /\ UNCHANGED <<users, dir, ai, http, prefs, events, contacts, nextEventPk, nextContactPk,
                 inserted, pc, call, tx, cpc, ccall, ctx, synced>>

\* catch: rollback, throw; finally: release
PrefsThrow ==
  /\ prefs' = [NoPrefs EXCEPT !.stored = prefs.stored]
  /\ pool' = [pool EXCEPT !["updateCalendarPreferences"] =
                AfterCall(Release(RollbackTransaction(@)))]
  /\ last' = Ledger(Step("prefsError", prefs.userId, <<>>, 0, {}),
                    Release(RollbackTransaction(pool["updateCalendarPreferences"])))
  /\ UNCHANGED <<users, dir, ai, http, events, contacts, nextEventPk, nextContactPk,
                 inserted, pc, call, tx, cpc, ccall, ctx, synced>>

\* DELETE FROM user_calendar_preferences WHERE user_id = ?
PrefsDelete ==
  /\ prefs.pc = "delete"
  /\ prefs' = [prefs EXCEPT !.view = {},
                            !.pc = IF Len(prefs.ids) > 0 THEN "insert" ELSE "commit"]
  /\ last' = Step("prefsDelete", prefs.userId, <<>>, 0, {})
  /\ UNCHANGED <<users, dir, ai, http, pool, events, contacts, nextEventPk, nextContactPk,
                 inserted, pc, call, tx, cpc, ccall, ctx, synced>>

\* the one INSERT of all the calendarIds
PrefsInsert ==
  /\ prefs.pc = "insert"
  /\ IF DuplicateCalendar(prefs.ids)
       THEN PrefsThrow
       ELSE /\ prefs' = [prefs EXCEPT
                           !.view = {<<prefs.userId, prefs.ids[i]>> : i \in DOMAIN prefs.ids},
                           !.pc = "commit"]
            /\ last' = Step("prefsInsert", prefs.userId, <<>>, 0, {})
            /\ UNCHANGED <<users, dir, ai, http, pool, events, contacts, nextEventPk,
                           nextContactPk, inserted, pc, call, tx, cpc, ccall, ctx, synced>>

\* connection.commit(): the user's rows are replaced by the transaction's
PrefsCommit ==
  /\ prefs.pc = "commit"
  /\ prefs' = [prefs EXCEPT
                 !.stored = {r \in @ : r[1] # prefs.userId} \cup prefs.view,
                 !.view = {},
                 !.pc = "reread"]
  /\ pool' = [pool EXCEPT !["updateCalendarPreferences"] = CommitTransaction(@)]
  /\ last' = Step("prefsCommitted", prefs.userId, <<>>, 0, {})
  /\ UNCHANGED <<users, dir, ai, http, events, contacts, nextEventPk, nextContactPk,
                 inserted, pc, call, tx, cpc, ccall, ctx, synced>>

\* findByFirebaseUid after the commit, return; finally: release
PrefsReturn ==
  /\ prefs.pc = "reread"
  /\ prefs' = [NoPrefs EXCEPT !.stored = prefs.stored]
  /\ pool' = [pool EXCEPT !["updateCalendarPreferences"] = AfterCall(Release(@))]
  /\ last' = Ledger(Looked(Step("prefsOk", prefs.userId, <<>>, Len(prefs.ids), {}), 2),
                    Release(pool["updateCalendarPreferences"]))
  /\ UNCHANGED <<users, dir, ai, http, events, contacts, nextEventPk, nextContactPk,
                 inserted, pc, call, tx, cpc, ccall, ctx, synced>>

\* any awaited call inside the try block can reject: a statement, the commit,
\* or the lookup after the commit
PrefsFail ==
  /\ prefs.pc # "idle"
  /\ PrefsThrow

\* ------------------------------------------------------ parseCalendarIntent
\* the fields of the JSON structure the system prompt asks the model for
IntentKeys ==
  {"action", "startDate", "endDate", "timeStart", "timeEnd", "title", "location",
   "contacts", "recurrence", "notes", "isPrivate"}
requiredKeys ==
  {"action", "startDate", "timeStart", "timeEnd", "title", "location",
   "contacts", "recurrence", "notes", "isPrivate"}

\* an Error object: its name, its message, its status (0: none) and the
\* status of its response (0: no response)
Err(n, m, st, rs) == [name |-> n, message |-> m, status |-> st, response |-> rs]
\* a failure as parseCalendarIntent reported it: its kind and the status thrown
NoReport == [failure |-> "", status |-> 0]
\* no parseCalendarIntent call in progress; timer is "none", "pending",
\* "fired" or "cleared"; told and toldBefore are the last two failures reported
NoIntentCall == [pc |-> "idle", timer |-> "none", caller |-> "",
                 told |-> NoReport, toldBefore |-> NoReport]

\* response.choices[0].message.content: absent or empty, text that is no
\* JSON, the JSON text null, or a JSON object with some of the fields
NoContent == [kind |-> "none", keys |-> {}]
TextContent == [kind |-> "text", keys |-> {}]
NullContent == [kind |-> "null", keys |-> {}]
ObjectContent(ks) == [kind |-> "object", keys |-> ks]
Contents ==
  {NoContent, TextContent, NullContent, ObjectContent(IntentKeys)}
    \cup {ObjectContent(IntentKeys \ {k}) : k \in IntentKeys}

\* how openai.chat.completions.create can settle: with a completion, or
\* with an error of the API (a status), of the transport (a response status
\* or nothing), or of the abort signal
Completion(c) == [kind |-> "completion", content |-> c, error |-> Err("", "", 0, 0)]
Rejection(k, e) == [kind |-> k, content |-> NoContent, error |-> e]
Aborted == Rejection("timeout", Err("AbortError", "Request was aborted.", 0, 0))
Rejections ==
  {Rejection("upstream", Err("Error", "api", st, 0)) : st \in {401, 429, 500, 503}}
    \cup {Rejection("upstream", Err("Error", "gateway", 0, 400)),
          Rejection("upstream", Err("Error", "socket hang up", 0, 0)),
          Rejection("upstream", Err("Error", "", 0, 0))}
Settlements == {Completion(c) : c \in Contents} \cup Rejections

\* the body of try after the await: the checks on the content, giving the
\* parsed object's fields or the error thrown
Checked(c) ==
  IF c.kind = "none"
    THEN [failure |-> "empty", error |-> Err("Error", "AI returned no content", 503, 0)]
  ELSE IF c.kind \in {"text", "null"}
    THEN [failure |-> "unparseable",
          error |-> Err("Error", "AI returned invalid JSON", 502, 0)]
  ELSE IF ~(requiredKeys \subseteq c.keys)
    THEN [failure |-> "missing",
          error |-> Err("Error", "AI JSON missing required fields", 502, 0)]
  ELSE [failure |-> "", error |-> Err("", "", 0, 0)]

\* the catch block: what is thrown to the caller for an error caught
Normalised(e) ==
  IF e.status # 0 THEN e
  ELSE IF e.name = "AbortError" THEN Err("Error", "AI request timed out", 504, 0)
  ELSE Err("Error", IF e.message # "" THEN e.message ELSE "AI request failed",
           IF e.response # 0 THEN e.response ELSE 500, 0)

\* what parseCalendarIntent comes to for a settlement of the upstream call:
\* the failure kind, the error thrown (status 0: none) and the fields returned
Outcome(o) ==
  IF o.kind = "completion"
    THEN [failure |-> Checked(o.content).failure,
          error |-> Normalised(Checked(o.content).error),
          keys |-> IF Checked(o.content).failure = "" THEN o.content.keys ELSE {}]
    ELSE [failure |-> o.kind, error |-> Normalised(o.error), keys |-> {}]

\* the call in progress ended with outcome r, its timer left as t
Ended(r, t) ==
  [pc |-> "idle", timer |-> t, caller |-> "",
   told |-> IF r.failure = "" THEN ai.told
            ELSE [failure |-> r.failure, status |-> r.error.status],
   toldBefore |-> IF r.failure = "" THEN ai.toldBefore ELSE ai.told]

KeepTimer(t) == t
\* finally: clearTimeout(timer)
ClearTimeout(t) == IF t = "pending" THEN "cleared" ELSE t

\* ------------------------------------------------- ChatController.sendMessage
\* the catch block of sendMessage: the status answered for an error that
\* reaches the controller
ChatErrorStatus(e) ==
  IF e.message \in {"Message is required and must be a non-empty string",
                    "Invalid permissions structure"} THEN 400
  ELSE IF e.message = "Failed to generate response" THEN 503
  ELSE IF e.status \in {401, 403, 429, 502, 503, 504} THEN e.status
  ELSE 500

\* the end of a parseCalendarIntent call, as its caller sees it. Called
\* directly the outcome is the answer. generateChatResponse catches the
\* error: the chat service that looks for keywords logs it and answers
\* without the intent, the one that parses every message answers its
\* fallback text with the error's message; sendMessage answers 200
Answered(caller, r) ==
  IF caller = "adapter"
    THEN [Tag(Step(IF r.failure = "" THEN "intentOk" ELSE "intentError",
                   0, <<>>, 0, {}), "intent", "", "")
            EXCEPT !.status = r.error.status, !.message = r.error.message,
                   !.keys = r.keys, !.failure = r.failure]
    ELSE [Tag(Step("chat", 0, <<>>, 0, {}), "chat", "", caller)
            EXCEPT !.status = 200,
                   !.message = IF r.failure # "" /\ caller = "fallback"
                                 THEN r.error.message ELSE "",
                   !.keys = r.keys, !.failure = r.failure]

\* getOpenAIClient throws 'Missing OPENAI_API_KEY' inside try
NoApiKey ==
  [failure |-> "config",
   error |-> Normalised(Err("Error", "Missing OPENAI_API_KEY", 0, 0)), keys |-> {}]

\* parseCalendarIntent up to its await: the timer is armed; without an API
\* key getOpenAIClient throws and the call ends here
ParseCalendarIntent(caller, hasKey) ==
  /\ ai.pc = "idle"
  /\ IF hasKey
       THEN /\ ai' = [ai EXCEPT !.pc = "awaiting", !.timer = "pending",
                                 !.caller = caller]
            /\ last' = Tag(Step("intentCall", 0, <<>>, 0, {}),
                           IF caller = "adapter" THEN "intent" ELSE "chat", "", "")
       ELSE /\ ai' = Ended(NoApiKey, ClearTimeout("pending"))
            /\ last' = Answered(caller, NoApiKey)
  /\ UNCHANGED <<users, dir, http, pool, prefs, events, contacts, nextEventPk, nextContactPk, inserted,
                 pc, call, tx, cpc, ccall, ctx, synced>>

\* setTimeout(() => controller.abort(), timeoutMs) fires
TimerFires ==
  /\ ai.pc = "awaiting" /\ ai.timer = "pending"
  /\ ai' = [ai EXCEPT !.timer = "fired"]
  /\ last' = Tag(Step("intentAbort", 0, <<>>, 0, {}), "intent", "", "")
  /\ UNCHANGED <<users, dir, http, pool, prefs, events, contacts, nextEventPk, nextContactPk, inserted,
                 pc, call, tx, cpc, ccall, ctx, synced>>

\* the upstream call settles and parseCalendarIntent runs to its end
IntentSettles(o) ==
  /\ ai.pc = "awaiting"
  /\ (ai.timer = "fired") <=> (o = Aborted)
  /\ ai' = Ended(Outcome(o), ClearTimeout(ai.timer))
  /\ last' = Answered(ai.caller, Outcome(o))
  /\ UNCHANGED <<users, dir, http, pool, prefs, events, contacts, nextEventPk, nextContactPk, inserted,
                 pc, call, tx, cpc, ccall, ctx, synced>>

\* the messages of a chat request: none, a greeting, one about the calendar,
\* any other
Messages == {"", "hi", "meeting tomorrow", "thanks"}

\* sendMessage up to the parseCalendarIntent call of generateChatResponse.
\* service "keywords" is services/chatService.js, which calls it for a
\* message with a calendar keyword; service "fallback" is the chat service
\* that calls it for every message but a greeting
SendMessage(service, message, hasKey) ==
  IF message = ""
    THEN /\ last' = [Tag(Step("chat", 0, <<>>, 0, {}), "chat", "", service)
                       EXCEPT !.status = 400, !.message = "Message is required"]
         /\ UNCHANGED <<users, dir, ai, http, pool, prefs, events, contacts, nextEventPk, nextContactPk,
                        inserted, pc, call, tx, cpc, ccall, ctx, synced>>
  ELSE IF message = "hi" \/ (service = "keywords" /\ message # "meeting tomorrow")
    THEN /\ ai.pc = "idle"
         /\ last' = [Tag(Step("chat", 0, <<>>, 0, {}), "chat", "", service)
                       EXCEPT !.status = 200]
         /\ UNCHANGED <<users, dir, ai, http, pool, prefs, events, contacts, nextEventPk, nextContactPk,
                        inserted, pc, call, tx, cpc, ccall, ctx, synced>>
  ELSE ParseCalendarIntent(service, hasKey)

\* ------------------------------------------------------------------ routes
\* a path parameter such as :eventId
Param == ":eventId"
Route(mount, m, pattern, gate, h) ==
  [mount |-> mount, method |-> m, pattern |-> pattern, gate |-> gate, handler |-> h]
NoRoute == Route("", "", <<>>, FALSE, "")

\* the routes in the order in which they are registered. gate: the route
\* names authenticateToken itself
Routes ==
  <<Route("auth", "POST", <<"signin">>, FALSE, "signIn"),
    Route("auth", "GET", <<"profile">>, TRUE, "getProfile"),
    Route("auth", "PUT", <<"profile">>, TRUE, "updateProfile"),
    Route("user", "POST", <<"calendar-preferences">>, FALSE, "saveCalendarPreferences"),
    Route("user", "GET", <<"calendar-preferences">>, FALSE, "getCalendarPreferences"),
    Route("chat", "POST", <<"message">>, FALSE, "sendMessage"),
    Route("calendar", "POST", <<"sync">>, FALSE, "syncCalendarEvents"),
    Route("calendar", "GET", <<"events">>, FALSE, "getCalendarEvents"),
    Route("calendar", "GET", <<"events", Param>>, FALSE, "getCalendarEventById"),
    Route("calendar", "POST", <<"events", "create">>, FALSE, "createCalendarEvent"),
    Route("calendar", "GET", <<"events", "range">>, FALSE, "getEventsByDateRange"),
    Route("calendar", "GET", <<"upcoming">>, FALSE, "getUpcomingEvents"),
    Route("calendar", "GET", <<"stats">>, FALSE, "getCalendarStats"),
    Route("calendar", "DELETE", <<"events", Param>>, FALSE, "deleteCalendarEvent")>>

\* the routers that begin with router.use(authenticateToken)
GatedMounts == {"user", "chat", "calendar"}

\* a route's pattern against the path below the mount point
Matches(pattern, rest) ==
  /\ Len(pattern) = Len(rest)
  /\ \A i \in 1..Len(pattern) : pattern[i] = Param \/ pattern[i] = rest[i]

Applies(r, m, path) ==
  /\ path # <<>> /\ r.mount = Head(path)
  /\ r.method = m
  /\ Matches(r.pattern, Tail(path))

\* Express hands the request to the first route registered that matches
Dispatch(m, path) ==
  IF \E i \in 1..Len(Routes) : Applies(Routes[i], m, path)
    THEN Routes[CHOOSE i \in 1..Len(Routes) :
                  /\ Applies(Routes[i], m, path)
                  /\ \A j \in 1..(i - 1) : ~Applies(Routes[j], m, path)]
    ELSE NoRoute

\* req.params.eventId of a request routed to a pattern that has the parameter
EventIdOf(r, path) ==
  IF \E i \in 1..Len(r.pattern) : r.pattern[i] = Param
    THEN Tail(path)[CHOOSE i \in 1..Len(r.pattern) : r.pattern[i] = Param]
    ELSE ""

\* ---------------------------------------------------------- authenticateToken
\* authHeader && authHeader.split(' ')[1]; "" stands for no token
TokenOf(authorization) == IF Len(authorization) >= 2 THEN authorization[2] ELSE ""

\* the ID tokens Firebase accepts, and the uid each decodes to
Decoded == [tokU1 |-> "u1", tokU2 |-> "u2", tokU9 |-> "u9"]

\* firebaseService.verifyIdToken: the decoded uid, or the message of the error
\* thrown: initialize() failing, or the Admin SDK refusing the token
VerifyIdToken(token, firebaseUp) ==
  IF ~firebaseUp THEN [uid |-> "", error |-> "Firebase initialization failed"]
  ELSE IF token \in DOMAIN Decoded THEN [uid |-> Decoded[token], error |-> ""]
  ELSE [uid |-> "", error |-> "Invalid Firebase token"]

AdmitsUnverified(r, mount, token, v) ==
  (r.gate \/ mount \in GatedMounts) => token # ""
\* whether the request gets past authenticateToken, where the route has it
Admits(r, mount, token, v) ==
  (r.gate \/ mount \in GatedMounts) => (token # "" /\ v.error = "")

\* what a client can send: the method and the path, and the words of the
\* Authorization header
Requests ==
  {<<"POST", <<"auth", "signin">>>>, <<"GET", <<"auth", "profile">>>>,
   <<"POST", <<"user", "calendar-preferences">>>>,
   <<"POST", <<"chat", "message">>>>, <<"POST", <<"calendar", "sync">>>>,
   <<"GET", <<"calendar", "events">>>>, <<"GET", <<"calendar", "events", "A">>>>,
   <<"GET", <<"calendar", "events", "range">>>>,
   <<"POST", <<"calendar", "events", "create">>>>,
   <<"GET", <<"calendar", "upcoming">>>>, <<"GET", <<"calendar", "stats">>>>,
   <<"DELETE", <<"calendar", "events", "A">>>>, <<"GET", <<"calendar", "nothing">>>>}
Authorizations ==
  {<<>>, <<"Bearer", "tokU1">>, <<"Bearer", "tokU2">>, <<"Bearer", "expired">>}

\* a request arrives: the router's authenticateToken, the matching of the
\* route, and a route's own authenticateToken
AuthenticateToken(m, path, authorization, firebaseUp) ==
  LET r == Dispatch(m, path)
      mount == IF path = <<>> THEN "" ELSE Head(path)
      token == TokenOf(authorization)
      v == VerifyIdToken(token, firebaseUp)
      gated == r.gate \/ mount \in GatedMounts
      req == [method |-> m, path |-> path, authorization |-> authorization,
              firebaseUp |-> firebaseUp, guarded |-> gated, handler |-> "",
              eventId |-> "", user |-> ""]
      answer(k, st, msg) ==
        [Tag(Step(k, 0, <<>>, 0, {}), "gate", "", "")
           EXCEPT !.status = st, !.message = msg]
  IN /\ IF ~Admits(r, mount, token, v)
          THEN /\ http' = req
               /\ last' = answer("unauthorized", 401,
                             IF token = "" THEN "Access token is required"
                             ELSE IF v.error = "Invalid Firebase token"
                               THEN "Invalid or expired token"
                             ELSE "Authentication failed")
        ELSE IF r = NoRoute
          THEN /\ http' = [req EXCEPT !.user = IF gated THEN v.uid ELSE ""]
               /\ last' = answer("noRoute", 404, "")
        ELSE /\ http' = [req EXCEPT !.handler = r.handler,
                                     !.eventId = EventIdOf(r, path),
                                     !.user = IF gated THEN v.uid ELSE ""]
             /\ last' = answer("routed", 0, "")
     /\ UNCHANGED <<users, dir, ai, pool, prefs, events, contacts, nextEventPk, nextContactPk,
                    inserted, pc, call, tx, cpc, ccall, ctx, synced>>

\* -------------------------------------------------- the handlers of the routes
\* CalendarService.getCalendarEventById and the controller's answer
GetCalendarEventById(uid, eventId) ==
  /\ \E full \in SortedLists(ReadEvents(uid)) :
       LET hits == SelectSeq(full, LAMBDA e : e.event_id = eventId) IN
         last' = [Tag(Step(IF hits = <<>> THEN "eventNotFound" ELSE "event",
                           0, <<>>, 0, IF hits = <<>> THEN {} ELSE {Head(hits)}),
                      "getCalendarEventById", uid, eventId)
                    EXCEPT !.status = IF hits = <<>> THEN 404 ELSE 200]
  /\ UNCHANGED <<users, dir, ai, http, pool, prefs, events, contacts, nextEventPk, nextContactPk,
                 inserted, pc, call, tx, cpc, ccall, ctx, synced>>

\* the controller's getEventsByDateRange: GET /events/range
GetEventsByDateRange(uid, o) ==
  IF ~TruthyDate(o.startDate) \/ ~TruthyDate(o.endDate)
    THEN /\ last' = [Tag(Step("badRequest", 0, <<>>, 0, {}), "getEventsByDateRange", uid, "")
                       EXCEPT !.status = 400, !.opts = o]
         /\ UNCHANGED <<users, dir, ai, http, pool, prefs, events, contacts, nextEventPk,
                        nextContactPk, inserted, pc, call, tx, cpc, ccall, ctx, synced>>
    ELSE GetCalendarEventsFor("getEventsByDateRange", uid, o)

\* the length of a day in seconds
DaySeconds == 86400
\* the controller's getUpcomingEvents: from now to the same time days later
GetUpcomingEvents(uid, now, days) ==
  GetCalendarEventsFor("getUpcomingEvents", uid,
                       Options(now, IsoDate(now.s + days * DaySeconds, now.ms), ""))

\* AuthController.getProfile
GetProfile(uid) ==
  /\ last' = [Tag(Step(IF FindUser(uid) = {} THEN "userNotFound" ELSE "profile",
                       0, <<>>, 0, FindUser(uid)), "getProfile", uid, "")
                EXCEPT !.status = IF FindUser(uid) = {} THEN 404 ELSE 200]
  /\ UNCHANGED <<users, dir, ai, http, pool, prefs, events, contacts, nextEventPk, nextContactPk,
                 inserted, pc, call, tx, cpc, ccall, ctx, synced>>

\* --------------------------------------------------------- specification
\* The server with the two users of the test data. u2 synced event A from its
\* own device before; it issues no request here.
StoredByU2 == {EventRow(EvA1, 1, 2, "u2")}

InitStore(stored, pk, attached) ==
  /\ users = {UserRow(1, "u1", "one@old", "One", Null, 0),
              UserRow(2, "u2", "two@old", Null, "p2", 1)}
  /\ dir = [next |-> 3, inserted |-> 0, procs |-> [p \in Procs |-> NoProc]]
  /\ ai = NoIntentCall
  /\ http = NoRequest
  /\ pool = [h \in Holders |-> NotHeld]
  /\ prefs = NoPrefs
  /\ events = stored
  /\ contacts = attached
  /\ nextEventPk = pk
  /\ nextContactPk = Cardinality(attached) + 1
  /\ inserted = [events |-> 0, contacts |-> 0]
  /\ pc = [c \in Conns |-> "idle"]
  /\ call = [c \in Conns |-> NoCall]
  /\ tx = [c \in Conns |-> NoTx]
  /\ cpc = "idle"
  /\ ccall = NoCreate
  /\ ctx = {}
  /\ synced = NoSync
  /\ last = Step("init", 0, <<>>, 0, {})

InitWith(stored, pk) == InitStore(stored, pk, {})

Init == InitWith(StoredByU2, 2)

Catalog == {EvA1, EvA2, EvB1, EvNoTitle}

Next ==
  \/ \E ev \in EventsInputs(Catalog), uid \in UserIdInputs : SyncCall("c1", ev, uid)
  \/ SyncUpsert("c1")
  \/ SyncPrune("c1")
  \/ SyncCommit("c1")
  \/ SyncFail("c1")
  \/ \E uid \in TokenUids : Read(uid)
  \/ \E uid \in TokenUids, id \in {"A", "B"} : DeleteCall(uid, id)
  \/ \E uid \in TokenUids, e \in {EvA1, EvB1} : CreateCall(uid, e, <<>>)

Spec == Init /\ [][Next]_vars

\* The scenario of a device that drops events B and C, edits A and adds D:
\* u1 holds A, B and C from an earlier sync.
StoredScenario ==
  {EventRow(EvA1, 1, 1, "u1"), EventRow(EvB1, 2, 1, "u1"), EventRow(EvC1, 3, 1, "u1"),
   EventRow(EvA1, 4, 2, "u2")}

InitScenario == InitWith(StoredScenario, 5)

CatalogScenario == {EvA2, EvD1, EvBadFetched}

NextScenario ==
  \/ \E ev \in EventsInputs(CatalogScenario) : SyncCall("c1", ev, "u1")
  \/ SyncUpsert("c1")
  \/ SyncPrune("c1")
  \/ SyncCommit("c1")
  \/ SyncFail("c1")
  \/ \E uid \in {"u1", "u2"} : Read(uid)

SpecScenario == InitScenario /\ [][NextScenario]_vars

\* Events created one at a time with attached contacts, next to deletes and
\* syncs of the same owner.
ContactLists == SeqsUpTo(ContactInputs, MaxContacts)

NextContacts ==
  \/ \E e \in {EvA1, EvB1}, cts \in ContactLists : CreateCall("u1", e, cts)
  \/ CreateContact
  \/ CreateCommit
  \/ CreateFail
  \/ \E id \in {"A", "B"} : DeleteCall("u1", id)
  \/ \E ev \in EventsInputs({EvA2}) : SyncCall("c1", ev, "u1")
  \/ SyncUpsert("c1")
  \/ SyncPrune("c1")
  \/ SyncCommit("c1")
  \/ SyncFail("c1")

SpecContacts == Init /\ [][NextContacts]_vars

\* Two devices of u1 syncing at the same time, each on its own connection.
SnapshotsConc ==
  {[kind |-> "array", list |-> s] : s \in {<<>>, <<EvA1>>, <<EvB1>>, <<EvA1, EvB1>>}}

NextConc ==
  \/ \E c \in Conns, ev \in SnapshotsConc : SyncCall(c, ev, "u1")
  \/ \E c \in Conns : SyncUpsert(c)
  \/ \E c \in Conns : SyncPrune(c)
  \/ \E c \in Conns : SyncCommit(c)
  \/ \E c \in Conns : SyncFail(c)

SpecConc == Init /\ [][NextConc]_vars

\* Snapshots whose events omit optional fields, synced with no statement
\* failing for a reason of the database.
CatalogOptional == {EvA1, EvNoNotes, EvNoFetched, EvNoAllDay, EvNoCalendar}

NextOptional ==
  \/ \E ev \in EventsInputs(CatalogOptional) : SyncCall("c1", ev, "u1")
  \/ SyncUpsert("c1")
  \/ SyncPrune("c1")
  \/ SyncCommit("c1")
  \/ Read("u1")

SpecOptional == Init /\ [][NextOptional]_vars

\* Sign-ins that overlap.
NextDirectoryConc ==
  \/ \E p \in Procs, prof \in ProfileInputs : FocFind(p, prof)
  \/ \E p \in Procs : FocUpdate(p)
  \/ \E p \in Procs : FocCreate(p)
  \/ \E p \in Procs : FocReturn(p)

SpecDirectoryConc == Init /\ [][NextDirectoryConc]_vars

\* Queries over a store with events of two calendars and two owners.
StoredQueries ==
  {EventRow(EvA1, 1, 1, "u1"), EventRow(EvB1, 2, 1, "u1"), EventRow(EvC1, 3, 1, "u1"),
   EventRow(EvE1, 4, 1, "u1"), EventRow(EvA1, 5, 2, "u2"), EventRow(EvD1, 6, 2, "u2")}

InitQueries == InitWith(StoredQueries, 7)

NextQueries ==
  \/ \E uid \in {"u1", "u2", "u9"}, o \in OptionsInputs : GetCalendarEvents(uid, o)
  \/ \E uid \in {"u1", "u2", "u9"}, now \in NowInputs : GetCalendarStats(uid, now)
  \/ \E id \in {"A", "B"} : DeleteCall("u1", id)

SpecQueries == InitQueries /\ [][NextQueries]_vars

\* The intent adapter called directly and through the two chat services.
NextIntent ==
  \/ \E hasKey \in BOOLEAN : ParseCalendarIntent("adapter", hasKey)
  \/ \E service \in {"keywords", "fallback"}, m \in Messages, hasKey \in BOOLEAN :
       SendMessage(service, m, hasKey)
  \/ TimerFires
  \/ \E o \in Settlements \cup {Aborted} : IntentSettles(o)

SpecIntent == Init /\ [][NextIntent]_vars

\* Requests through the routers: each passes authenticateToken where its
\* route has it, is matched to a route and handled. The handlers of signIn,
\* updateProfile, getCalendarPreferences and createCalendarEvent are not run
\* here.
\* The snapshot synced is the empty one; both users have event A stored.
StoredApi == {EventRow(EvA1, 1, 1, "u1"), EventRow(EvA1, 2, 2, "u2")}

InitApi == InitWith(StoredApi, 3)

SnapshotsApi == {[kind |-> "array", list |-> <<>>]}

\* getEventsByDateRange has no step: no request is routed to it, GET
\* /events/range matches the pattern /events/:eventId registered before it
NextApi ==
  \/ \E rq \in Requests, a \in Authorizations, up \in BOOLEAN :
       AuthenticateToken(rq[1], rq[2], a, up)
  \/ /\ http.handler = "syncCalendarEvents"
     /\ \E ev \in SnapshotsApi, uid \in {"u1", "u2"} : SyncCall("c1", ev, uid)
  \/ SyncPrune("c1")
  \/ SyncCommit("c1")
  \/ SyncFail("c1")
  \/ http.handler = "getCalendarEvents" /\ GetCalendarEvents(http.user, NoOptions)
  \/ http.handler = "getCalendarEventById"
       /\ GetCalendarEventById(http.user, http.eventId)
  \/ http.handler = "getUpcomingEvents"
       /\ GetUpcomingEvents(http.user, IsoDate(9, 0), 7)
  \/ http.handler = "getCalendarStats" /\ GetCalendarStats(http.user, IsoDate(11, 0))
  \/ http.handler = "deleteCalendarEvent" /\ DeleteCall(http.user, http.eventId)
  \/ http.handler = "getProfile" /\ GetProfile(http.user)
  \/ http.handler = "sendMessage" /\ SendMessage("keywords", "hi", TRUE)

SpecApi == InitApi /\ [][NextApi]_vars

\* Two owners whose devices report the same external identifiers: both hold A
\* and B, each with a contact attached to its B.
StoredOwners ==
  {EventRow(EvA1, 1, 1, "u1"), EventRow(EvB1, 2, 1, "u1"),
   EventRow(EvA1, 3, 2, "u2"), EventRow(EvB1, 4, 2, "u2")}

AttachedOwners ==
  {ContactRow(Contact("k1", "Ann"), 1, 2), ContactRow(Contact("k1", "Ann"), 2, 4)}

InitOwners == InitStore(StoredOwners, 5, AttachedOwners)

CatalogOwners == {EvA2, EvC1}

NextOwners ==
  \/ \E ev \in EventsInputs(CatalogOwners), uid \in {"u1", "u2"} : SyncCall("c1", ev, uid)
  \/ SyncUpsert("c1")
  \/ SyncPrune("c1")
  \/ SyncCommit("c1")
  \/ SyncFail("c1")

SpecOwners == InitOwners /\ [][NextOwners]_vars

\* Every function that takes a connection for a transaction, with a rejection
\* possible at each of its awaited calls.
SnapshotsLifecycle == {[kind |-> "array", list |-> s] : s \in {<<>>, <<EvA2>>}}

NextLifecycle ==
  \/ \E ev \in SnapshotsLifecycle : SyncCall("c1", ev, "u1")
  \/ \E ev \in SnapshotsLifecycle, step \in BeginSteps : SyncBeginFails("c1", ev, "u1", step)
  \/ SyncUpsert("c1")
  \/ SyncPrune("c1")
  \/ SyncCommit("c1")
  \/ SyncFail("c1")
  \/ CreateCall("u1", EvB1, <<Contact("k1", "Ann")>>)
  \/ \E step \in BeginSteps : CreateBeginFails("u1", EvB1, <<Contact("k1", "Ann")>>, step)
  \/ CreateContact
  \/ CreateCommit
  \/ CreateFail
  \/ \E uid \in TokenUids, ids \in CalendarIdLists : UpdateCalendarPreferences(uid, ids)
  \/ \E ids \in CalendarIdLists, step \in BeginSteps : PrefsBeginFails("u1", ids, step)
  \/ PrefsDelete
  \/ PrefsInsert
  \/ PrefsCommit
  \/ PrefsReturn
  \/ PrefsFail

SpecLifecycle == Init /\ [][NextLifecycle]_vars

\* ------------------------------------------------------------------ claims
\* the last event of a snapshot that carries identifier id
LastOf(snap, id) ==
  snap[CHOOSE i \in 1..Len(snap) :
         snap[i].id = id /\ \A j \in (i + 1)..Len(snap) : snap[j].id # id]

\* row r stores the values event e carries: the dates to the second, an empty
\* notes or location as NULL
Holds(r, e) ==
  /\ r.event_id = e.id
  /\ r.title = e.title
  /\ r.start_date = e.startDate.s
  /\ r.end_date = e.endDate.s
  /\ r.is_all_day = (IF e.isAllDay = "true" THEN 1 ELSE 0)
  /\ r.notes = (IF e.notes = "" THEN Null ELSE e.notes)
  /\ r.location = (IF e.location = "" THEN Null ELSE e.location)
  /\ r.calendar_id = e.calendarId
  /\ r.calendar_name = e.calendarName
  /\ r.fetched_at = e.fetchedAt.s

\* C1: when a sync of snapshot S for owner u has committed, the identifiers of
\* the events stored for u are exactly the identifiers appearing in S
ExactCorrespondence ==
  last.kind = "syncOk" => IdsOf(events, last.userId) = SnapIds(last.snap)

\* a sync has committed that pruned a stored event and inserted a new one
ExactCorrespondenceSeen ==
  /\ last.kind = "syncOk"
  /\ IdsOf(last.rows, last.userId) \ SnapIds(last.snap) # {}
  /\ SnapIds(last.snap) \ IdsOf(last.rows, last.userId) # {}

\* C2: a sync transaction that ends without committing reports an error, and
\* the store is as it was before the call: no partial upsert, no partial prune
AtomicOnFailure ==
  [][\A c \in Conns :
       (Open(c) /\ pc'[c] = "idle" /\ last'.kind # "syncOk") =>
         /\ last'.kind = "syncError"
         /\ events' = events
         /\ contacts' = contacts
         /\ RowsOf(events', call[c].userId) = tx[c].base
         /\ tx'[c] = NoTx]_vars

\* a sync has failed after at least one of its upserts was executed
AtomicOnFailureSeen ==
  last.kind = "syncError" /\ last.count >= 1

\* C3: a snapshot with an event lacking id, title, start or end, at any
\* position, is rejected with nothing written, and no transaction ever runs
\* on such a snapshot
FailFastValidation ==
  [][/\ last'.kind = "validationError" =>
          UNCHANGED <<events, contacts, tx, pc, call, nextEventPk, inserted>>
     /\ \A c \in Conns :
          pc'[c] # "idle" =>
            \A i \in 1..Len(call'[c].events) :
              LET e == call'[c].events[i] IN
                /\ e.id \notin {"", Undefined}
                /\ e.title \notin {"", Undefined}
                /\ e.startDate.kind # "undefined"
                /\ e.endDate.kind # "undefined"]_vars

\* a snapshot was rejected whose first event is valid and whose second is not
FailFastValidationSeen ==
  last.kind = "validationError" /\ last.count = 2

\* C4: a non-empty snapshot synced twice in a row for the same owner, nothing
\* else writing in between: the second sync leaves the rows of the first, row
\* for row, and answers the same count
Idempotent ==
  (last.kind = "syncOk" /\ last.prev >= 0 /\ last.snap # <<>>) =>
    /\ RowsOf(events, last.userId) = last.rows
    /\ last.count = last.prev

\* the same non-empty snapshot was committed twice in a row
IdempotentSeen ==
  last.kind = "syncOk" /\ last.prev >= 0 /\ Len(last.snap) = 2

\* C5: a committed sync of the empty snapshot leaves the owner with no stored
\* event and answers count 0; when the owner had none it changes nothing
EmptySnapshotWipes ==
  [][\A c \in Conns :
       (pc[c] = "commit" /\ pc'[c] = "idle" /\ last'.kind = "syncOk"
          /\ call[c].events = <<>>) =>
         /\ RowsOf(events', call[c].userId) = {}
         /\ last'.count = 0
         /\ RowsOf(events, call[c].userId) = {} =>
               (events' = events /\ contacts' = contacts)]_vars

\* the empty snapshot was committed for an owner who had stored events
EmptySnapshotWipesSeen ==
  last.kind = "syncOk" /\ last.snap = <<>> /\ last.rows # {}

\* C6: after a committed sync every snapshot event is stored with the snapshot's
\* values, in the row its key had before the sync when it had one and in a new
\* row otherwise; stored {A, B, C} synced with {A modified, D} leaves exactly
\* A with the modified values, in A's row, and D
OverwriteInPlace ==
  last.kind = "syncOk" =>
    /\ \A id \in SnapIds(last.snap) :
         \E r \in RowsOf(events, last.userId) :
           /\ Holds(r, LastOf(last.snap, id))
           /\ \A o \in WithKey(last.rows, id, last.userId) : r.id = o.id
           /\ WithKey(last.rows, id, last.userId) = {} => r.id \notin Pks(last.rows)
    /\ (IdsOf(last.rows, last.userId) = {"A", "B", "C"} /\ last.snap = <<EvA2, EvD1>>) =>
         \E a, d \in events :
           /\ RowsOf(events, last.userId) = {a, d}
           /\ Holds(a, EvA2) /\ a.id \in Pks(WithKey(last.rows, "A", last.userId))
           /\ Holds(d, EvD1) /\ d.id \notin Pks(last.rows)

\* the sync of {A modified, D} over stored {A, B, C} has committed
OverwriteInPlaceSeen ==
  /\ last.kind = "syncOk"
  /\ IdsOf(last.rows, last.userId) = {"A", "B", "C"}
  /\ last.snap = <<EvA2, EvD1>>

\* C7: every stored contact row references a stored event: deleting an event,
\* by delete or by the prune of a sync, removes its contacts with it
NoOrphanContacts ==
  \A k \in contacts : k.event_id \in Pks(events)

\* a sync has committed whose prune removed an event that had contacts
NoOrphanContactsSeen ==
  last.kind = "syncOk" /\ last.cascaded > 0

\* C8: after a committed sync, each identifier of the snapshot has exactly one
\* row for the owner, and it holds the values of the identifier's last
\* occurrence in the snapshot
LastOccurrenceWins ==
  last.kind = "syncOk" =>
    \A id \in SnapIds(last.snap) :
      /\ Cardinality(WithKey(events, id, last.userId)) = 1
      /\ \A r \in WithKey(events, id, last.userId) : Holds(r, LastOf(last.snap, id))

\* a snapshot was committed that carries one identifier twice, with different
\* values
LastOccurrenceWinsSeen ==
  /\ last.kind = "syncOk"
  /\ \E i, j \in 1..Len(last.snap) :
       i < j /\ last.snap[i].id = last.snap[j].id /\ last.snap[i] # last.snap[j]

\* C9: no two stored rows have the same (event_id, user_id)
NaturalKeyUnique ==
  \A r1, r2 \in events :
    (r1.event_id = r2.event_id /\ r1.user_id = r2.user_id) => r1 = r2

\* a create was refused for a pair that is stored, and the pair has its one row
NaturalKeyUniqueSeen ==
  /\ last.kind = "createError"
  /\ Len(last.snap) = 1
  /\ WithKey(events, last.snap[1].id, last.userId) # {}

\* C10: a read returns the owner's rows as they were before every sync still
\* running for that owner, and a sync runs its prune only after all its upserts
ReadersSeeCommitted ==
  /\ last.kind = "read" =>
       \A c \in Conns :
         (Open(c) /\ call[c].userId = last.userId) => last.rows = tx[c].base
  /\ \A c \in Conns :
       /\ pc[c] = "upsert" => (tx[c].deleted = {} /\ tx[c].range = {})
       /\ pc[c] \in {"prune", "commit"} => call[c].idx = Len(call[c].events) + 1

\* a read ran while a sync of the same owner had uncommitted writes that
\* differ from what the read returned
ReadersSeeCommittedSeen ==
  /\ last.kind = "read"
  /\ \E c \in Conns :
       /\ Open(c) /\ call[c].userId = last.userId
       /\ tx[c].written # {}
       /\ RowsOf(View(c), last.userId) # last.rows

\* C11: when two syncs of one owner overlap and both commit, the owner's
\* stored identifiers after the second commit are exactly those of the
\* snapshot that committed last
LastCommitWins ==
  (last.kind = "syncOk" /\ last.peer = "committed") =>
    IdsOf(events, last.userId) = SnapIds(last.snap)

\* two overlapping syncs with different identifier sets, neither containing
\* the other, have both committed
LastCommitWinsSeen ==
  /\ last.kind = "syncOk" /\ last.peer = "committed"
  /\ SnapIds(last.peerSnap) \ SnapIds(last.snap) # {}
  /\ SnapIds(last.snap) \ SnapIds(last.peerSnap) # {}

\* C12: a sync or delete call whose user identifier matches no user record
\* answers 'User not found', is never answered as a success, and leaves
\* every stored event, contact and transaction as it was
UnknownOwnerRejected ==
  [][(/\ last'.op \in {"sync", "delete"}
      /\ last'.uid # ""
      /\ \A u \in users : u.firebase_uid # last'.uid) =>
        /\ UNCHANGED <<users, dir, events, contacts, tx, pc, call, nextEventPk, inserted>>
        /\ last'.kind \notin {"syncBegin", "deleteOk", "deleteNotFound", "validationError"}
        /\ last'.op = "delete" => last'.kind = "deleteUserNotFound"
        /\ (last'.op = "sync" /\ last'.req = "array") => last'.kind = "userNotFound"]_vars

\* a sync of an events array for an unknown user was refused while events
\* were stored
UnknownOwnerRejectedSeen ==
  /\ last.op = "sync" /\ last.kind = "userNotFound" /\ last.req = "array"
  /\ RowsOf(events, 1) # {}

\* C13: a delete by a known user succeeds exactly when a row of that user
\* with the identifier was stored, and then removes that one row and nothing
\* else; otherwise it answers not-found and the store is unchanged; no row of
\* another user is ever removed by it
DeleteByIdentifier ==
  [][(last'.op = "delete" /\ last'.userId # 0) =>
       LET hit == {r \in events :
                     r.event_id = last'.req /\ r.user_id = last'.userId}
       IN /\ last'.kind \in {"deleteOk", "deleteNotFound"}
          /\ last'.kind = "deleteOk" <=> hit # {}
          /\ hit # {} => (Cardinality(hit) = 1 /\ events' = events \ hit)
          /\ hit = {} => (events' = events /\ contacts' = contacts)
          /\ \A r \in events : r.user_id # last'.userId => r \in events']_vars

\* u1 deleted its event A while u2's event A stays stored
DeleteByIdentifierSeen ==
  /\ last.op = "delete" /\ last.kind = "deleteOk" /\ last.req = "A" /\ last.userId = 1
  /\ \E r \in events : r.event_id = "A" /\ r.user_id = 2
  /\ \A r \in events : ~(r.event_id = "A" /\ r.user_id = 1)

\* C14: a sync request that is refused for its form (events missing or no
\* list, userId missing, or an event lacking id, title, startDate or endDate)
\* is refused with no query issued on the way
ValidationBeforeStorage ==
  (last.op = "sync" /\ last.kind \in {"badRequest", "eventsRequired", "validationError"})
    => last.lookups = 0

\* C15: a snapshot whose events carry id, title, startDate and endDate and
\* omit optional fields is accepted and committed: with no failure of the
\* database, no sync of such a snapshot ends in an error
OptionalFieldsAccepted ==
  last.kind # "syncError"

\* C16: findOrCreate returns the one row with the profile's subject; when no
\* such row was stored its insert creates exactly one, with the profile's
\* email, display name, photo and verified flag; when one was stored its
\* update overwrites those four fields and keeps the row's id and subject;
\* and no step removes a user row or changes its id or subject
FindOrCreateUpserts ==
  [][/\ \A p \in Procs :
          LET prof == dir.procs[p].profile
              was == {u \in users : u.firebase_uid = prof.uid}
              now == {u \in users' : u.firebase_uid = prof.uid}
              carries(r) ==
                /\ r.email = prof.email
                /\ r.display_name =
                     (IF prof.displayName \in {"", Undefined} THEN Null
                                                             ELSE prof.displayName)
                /\ r.photo_url =
                     (IF prof.photoURL \in {"", Undefined} THEN Null ELSE prof.photoURL)
                /\ r.email_verified = (IF prof.emailVerified = "true" THEN 1 ELSE 0)
          IN /\ (dir.procs[p].pc = "update" /\ dir'.procs[p].pc = "reread") =>
                  /\ Cardinality(now) = 1
                  /\ {r.id : r \in now} = {r.id : r \in was}
                  /\ \A r \in now : carries(r)
                  /\ users' \ now = users \ was
             /\ (dir.procs[p].pc = "create" /\ dir'.procs[p].pc = "reread") =>
                  /\ was = {} /\ Cardinality(now) = 1
                  /\ \A r \in now : carries(r) /\ r.id \notin {u.id : u \in users}
                  /\ users' \ now = users
             /\ (dir.procs[p].pc = "reread" /\ dir'.procs[p].pc = "idle") =>
                  /\ last'.rows = now /\ Cardinality(now) = 1
                  /\ last'.kind \in {"userCreated", "userUpdated"}
                  /\ last'.kind = "userCreated" <=> dir.procs[p].before = {}
     /\ \A u \in users :
          \E v \in users' : v.id = u.id /\ v.firebase_uid = u.firebase_uid]_vars

\* a call returned a user it found stored, created by an earlier call, with
\* the fields of its own profile
FindOrCreateUpsertsSeen ==
  /\ last.kind = "userUpdated" /\ last.uid = "u9"
  /\ \E r \in last.rows : r.email = "nine@b" /\ r.display_name = Null /\ r.id > 2

\* C17: whatever the interleaving of findOrCreate calls, no two users rows
\* have the same subject
NoDuplicateUsers ==
  \A u, v \in users : u.firebase_uid = v.firebase_uid => u = v

\* two calls for one new subject both found no row and both tried the insert:
\* the second was refused and the subject has its row
NoDuplicateUsersSeen ==
  /\ last.kind = "userError"
  /\ \E u \in users : u.firebase_uid = last.uid

\* C18: no findOrCreate call fails: a call that loses the race for the insert
\* goes on as an update and returns the user
FindOrCreateTolerant ==
  last.kind # "userError"

RECURSIVE SumOf(_, _)
SumOf(f, names) ==
  IF names = {} THEN 0
  ELSE LET n == CHOOSE x \in names : TRUE IN f[n] + SumOf(f, names \ {n})

FailureKinds == {"empty", "unparseable", "missing", "timeout", "upstream"}

\* C21: any two failures of parseCalendarIntent that are of different kinds
\* among empty output, unparseable output, missing required field, timeout
\* and upstream error are reported with different statuses
DistinctFailureClasses ==
  (/\ ai.told.failure \in FailureKinds
   /\ ai.toldBefore.failure \in FailureKinds
   /\ ai.told.failure # ai.toldBefore.failure) =>
     ai.told.status # ai.toldBefore.status

\* C22: a call of parseCalendarIntent that has returned or thrown has no
\* timer pending, whichever way it ended
TimerReleased == ai.pc = "idle" => ai.timer # "pending"

\* a call ended by throwing after its upstream call had settled in time,
\* and its timer, still pending then, is cleared
TimerReleasedSeen ==
  /\ ai.pc = "idle" /\ ai.timer = "cleared"
  /\ last.kind = "intentError" /\ last.failure = "upstream"

\* C23: an object returned by parseCalendarIntent has every field of the
\* required set, endDate among them
RequiredIntentFields == last.kind = "intentOk" => IntentKeys \subseteq last.keys

\* C24: a chat message whose language-model call failed is answered with
\* the status the controller maps the failure's sub-kind to, not as a success
ChatFailuresClassified ==
  (last.kind = "chat" /\ last.failure \in FailureKinds) =>
    /\ last.status # 200
    /\ last.status = ChatErrorStatus(Err("Error", last.message, ai.told.status, 0))

\* the first steps of the route handlers, by the operation they record
HandlerOps ==
  {"sync", "events", "getCalendarEventById", "getEventsByDateRange",
   "getUpcomingEvents", "stats", "delete", "getProfile", "chat"}

RangeRouteDispatch ==
  (http.method = "GET" /\ http.path = <<"calendar", "events", "range">>
     /\ http.handler # "") => http.handler = "getEventsByDateRange"

\* C29: a sync that commits a change of the stored events was requested with
\* the token of the owner it synced
SyncActsOnAuthenticatedUser ==
  [][(pc["c1"] = "commit" /\ pc'["c1"] = "idle" /\ events' # events) =>
       call["c1"].auth = call["c1"].firebaseUid]_vars

\* C26: when createCalendarEvent fails while attaching the contacts, the
\* event row it inserted is not in the store afterwards, nor is any contact
\* of that event
CreateNeverPartial ==
  [][(cpc # "idle" /\ cpc' = "idle" /\ last'.kind = "createError") =>
       /\ ccall.eventPk \notin Pks(events')
       /\ \A k \in contacts' : k.event_id # ccall.eventPk]_vars

\* the contacts attached to the events of the rows
ContactsOf(tbl, rows) == {k \in tbl : k.event_id \in Pks(rows)}

\* C28: every step of a sync for one owner, the commit and the rollback
\* included, leaves the events and the contacts of every other owner as they
\* were, also when the other owner stores the identifiers of the snapshot or
\* of the pruned events
OwnerScoping ==
  [][Open("c1") =>
       \A u \in users : u.id # call["c1"].userId =>
         /\ RowsOf(events', u.id) = RowsOf(events, u.id)
         /\ ContactsOf(contacts', RowsOf(events', u.id))
              = ContactsOf(contacts, RowsOf(events, u.id))]_vars

\* u1's sync of a snapshot with A committed and pruned u1's B with its
\* contact, while u2 holds A and B with the contact of its B
OwnerScopingSeen ==
  /\ last.kind = "syncOk" /\ last.userId = 1
  /\ "A" \in SnapIds(last.snap)
  /\ "B" \in IdsOf(last.rows, 1) /\ "B" \notin IdsOf(events, 1)
  /\ last.cascaded > 0
  /\ {"A", "B"} \subseteq IdsOf(events, 2)
  /\ ContactsOf(contacts, RowsOf(events, 2)) # {}

\* whether a holder's call is in progress
Busy(h) ==
  IF h \in Conns THEN Open(h)
  ELSE IF h = "createMultiple" THEN cpc # "idle"
  ELSE prefs.pc # "idle"

====
